---- MODULE Spec2Model ----
(***************************************************************************)
(* Model of nsn-odds-data: static file generation with hash-based change   *)
(* detection, the tiered refresh policy, the value-bet / arbitrage         *)
(* aggregators, the region filter and the region-aware routes, the league  *)
(* whitelist and its administration, the market transformers, the cached   *)
(* upstream client, the readers of a file being rewritten, the scheduled   *)
(* runs of the refresh cron, concurrent generate requests and the cleanup  *)
(* of ended events and orphan files.                                       *)
(*                                                                         *)
(* Time is counted in seconds.  Money-like floats (expected value, profit  *)
(* margin) are counted in tenths.                                          *)
(***************************************************************************)
EXTENDS Integers, Sequences, FiniteSets, TLC

(***************************************************************************)
(* Bounds of the model                                                     *)
(***************************************************************************)
MaxTicks == 1
MaxPrice == 1
MaxQueued == 1
MaxDaysBack == 2
MaxDaysAhead == 10
MaxRaw == 2
MaxLimit == 2
MaxArbs == 3
MaxArbTicks == 2
MaxRequested == 2
MaxEvents == 2
MaxRows == 2
MaxLines == 2
MaxCalls == 3
MaxReqTicks == 2
MaxDefaults == 2
MaxCronRuns == 3
MaxDuration == 1
MaxPosts == 2
MaxCleanTicks == 2
MaxCleanRuns == 2

(***************************************************************************)
(* Program constants                                                       *)
(***************************************************************************)
LIVE_INTERVAL == 300
HOURLY_INTERVAL == 3600
DAILY_INTERVAL == 86400
Day == 86400
HOURLY_MAX_DAYS == 5
ARBITRAGE_CACHE_TTL == 120
ARBITRAGE_FETCH_FACTOR == 3
ARBITRAGE_FETCH_CAP == 100

\* None for a nullable timestamp column (all instants of the model are >= 0)
None == -1
\* StaticFile.hash is NULL / no document / no file on disk / no row
NoHash == <<>>
NoDoc == [nodoc |-> TRUE]
NoFile == [nofile |-> TRUE]
NoRow == [norow |-> TRUE]
NoData == [nodata |-> TRUE]

\* the sessions followed next to the cron job: one POST /generate handler or
\* worker task at a time
Runs == {1}

\* the instant the model starts at: noon of day 10
StartTime == 10 * Day + 12 * 3600
\* steps the clock advances by
TickSteps == {LIVE_INTERVAL}
\* commence times the upstream provider reports for the followed event:
\* yesterday, in one hour, in three days
EventDates == {StartTime - Day, StartTime + 3600, StartTime + 3 * Day}

(***************************************************************************)
(* Static file generation.  The model follows the RequestData / StaticFile *)
(* pair of one (provider, provider_id, market) key; rows of different keys *)
(* share no state.                                                         *)
(***************************************************************************)
VARIABLES
    now,            \* wall clock, seconds
    ticks,          \* number of clock steps taken
    commence,       \* the date the provider reports for the event
    request_data,   \* committed RequestData row, or NoRow
    static_files,   \* committed StaticFile row, or NoRow
    disk,           \* content of the file at StaticFile.path, or NoFile
    arq_pool,       \* app.state.arq_pool is set (background tasks enabled)
    jobs,           \* number of queued generate_static_file_task jobs
    runs,           \* [Runs -> state of a POST /generate handler or worker task]
    cron            \* state of the refresh_active_odds job

genVars == <<now, ticks, commence, request_data, static_files, disk, arq_pool, jobs, runs, cron>>

(***************************************************************************)
(* The refresh policy as a function: needs_refresh() called on a row with  *)
(* arbitrary columns at an arbitrary instant.                              *)
(***************************************************************************)
VARIABLES
    rf_now,         \* the clock at the call
    rf_rd,          \* the RequestData the method is called on
    rf_pc,          \* "call" before the call, "done" after it
    rf_out          \* the value returned

refVars == <<rf_now, rf_rd, rf_pc, rf_out>>

(***************************************************************************)
(* Value bets: one get_value_bets call, fanned out over the bookmakers     *)
(***************************************************************************)
VARIABLES
    vb_cache,       \* [bookmaker -> cache entry under value_bets:{bookmaker}]
    vb_args,        \* sport, league, min_ev and limit of the call
    vb_results,     \* [task index -> result of get_value_bets_for_bookmaker]
    vb_order,       \* task indexes in the order the tasks completed
    vb_pc,          \* "idle", "gather" (tasks running) or "done"
    vb_out          \* ValueBetsResponse.data

vbVars == <<vb_cache, vb_args, vb_results, vb_order, vb_pc, vb_out>>

(***************************************************************************)
(* Arbitrage: get_arbitrage_bets calls behind the 120-second cache         *)
(***************************************************************************)
VARIABLES
    ar_now,         \* wall clock, seconds
    ar_upstream,    \* the candidates upstream holds, best first
    ar_cache,       \* the entry under arbitrage:{bookmakers}
    ar_args,        \* sport, min_profit and limit of the last call
    ar_pc,          \* "idle", or how the last call ended: "done" or "error"
    ar_src_limit,   \* limit parameter of the upstream request the last call's data came from
    ar_out          \* ArbitrageResponse.data of the last call

arVars == <<ar_now, ar_upstream, ar_cache, ar_args, ar_pc, ar_src_limit, ar_out>>

(***************************************************************************)
(* Region filter: one get_bookmakers_for_region call                       *)
(***************************************************************************)
VARIABLES
    rg_region,      \* the Region of the call
    rg_requested,   \* the requested bookmakers, or no list
    rg_pc,          \* "call" before the call, "done" after it
    rg_ret          \* the list returned or the HTTPException raised

rgVars == <<rg_region, rg_requested, rg_pc, rg_ret>>

(***************************************************************************)
(* Region-aware routes: one request to an endpoint that takes a region     *)
(***************************************************************************)
VARIABLES
    rt_req,         \* endpoint, region, bookmakers parameter, number of event ids
    rt_pc,          \* "recv", "calling" (provider called), "done" or "rejected"
    rt_status,      \* HTTP status of the response, 0 before it
    rt_passed,      \* whether the provider was called, and with which bookmakers
    rt_rows,        \* RequestData and StaticFile were created by the request
    rt_resp         \* the bookmakers whose data the response carries

rtVars == <<rt_req, rt_pc, rt_status, rt_passed, rt_rows, rt_resp>>

(***************************************************************************)
(* League whitelist: the active whitelist rows, a list of events and the   *)
(* filtered list                                                           *)
(***************************************************************************)
VARIABLES
    wl_rows,        \* league_slug of the active LeagueWhitelist rows, in query order
    wl_events,      \* the events handed to the filter
    wl_exact,       \* exact matches of the whitelist, once loaded
    wl_patterns,    \* wildcard patterns of the whitelist, once loaded
    wl_pc,          \* "load", "filter" or "done"
    wl_out          \* what filter_events_by_whitelist returned

wlVars == <<wl_rows, wl_events, wl_exact, wl_patterns, wl_pc, wl_out>>

(***************************************************************************)
(* Market transformers: one upstream odds payload and its transformation   *)
(***************************************************************************)
VARIABLES
    tr_payload,     \* market, bookmaker shape and the bookmakers of the payload
    tr_pc,          \* "call" or "done"
    tr_out          \* what the transformer returned

trVars == <<tr_payload, tr_pc, tr_out>>

(***************************************************************************)
(* The cached upstream client: GET /events/{id} for one event id, with the *)
(* cache entry of its key and the upstream calls made for it               *)
(***************************************************************************)
VARIABLES
    rq_now,         \* clock, in seconds
    rq_cache,       \* the Redis entry of the cache key
    rq_calls,       \* invocations of _request so far
    rq_gets,        \* upstream HTTP GETs issued so far
    rq_api_calls,   \* the external API call counter of the metrics
    rq_last,        \* the last invocation: what it found, did and returned or raised
    rq_http         \* the response of the endpoint to the last request

rqVars == <<rq_now, rq_cache, rq_calls, rq_gets, rq_api_calls, rq_last, rq_http>>

(***************************************************************************)
(* Whitelist administration: the league_whitelists table and the last      *)
(* service call made on it                                                 *)
(***************************************************************************)
VARIABLES
    wa_table,       \* the rows of league_whitelists, in insertion order
    wa_last         \* the last call: its name, its arguments and what it returned

waVars == <<wa_table, wa_last>>

(***************************************************************************)
(* generate_static_file called directly: the session's rows, the file at   *)
(* the row's path and the last call                                        *)
(***************************************************************************)
VARIABLES
    gs_now,         \* the clock
    gs_sf,          \* the StaticFile row
    gs_rd,          \* its RequestData row
    gs_disk,        \* the document at StaticFile.path, NoFile before a write
    gs_last         \* the last call: provider answer, force flag, return value

gsVars == <<gs_now, gs_sf, gs_rd, gs_disk, gs_last>>

(***************************************************************************)
(* A static file being rewritten while clients read it: the bytes at the   *)
(* path, the writer's position and the last read                           *)
(***************************************************************************)
VARIABLES
    sv_disk,        \* the file at StaticFile.path and its text, NoFile before the first write
    sv_sf,          \* the committed StaticFile row
    sv_writer,      \* generate_static_file between open() and the end of the with block
    sv_read         \* the last read: the reader, and what it was given

svVars == <<sv_disk, sv_sf, sv_writer, sv_read>>

(***************************************************************************)
(* The refresh cron run after run: one generate request, its rows and      *)
(* file, the worker task and the scheduled runs of refresh_active_odds     *)
(***************************************************************************)
VARIABLES
    cj_now,         \* the clock
    cj_commence,    \* the event's date as the provider reports it
    cj_request,     \* the bookmakers field of the generate request
    cj_queued,      \* the request's generation has not run yet
    cj_rd,          \* the RequestData row
    cj_sf,          \* the StaticFile row
    cj_disk,        \* the document at StaticFile.path
    cj_runs,        \* scheduled runs of refresh_active_odds so far
    cj_fetched_at,  \* when the cron last called the provider for the row
    cj_last         \* the last generation or cron run and its outcome

cjVars == <<cj_now, cj_commence, cj_request, cj_queued, cj_rd, cj_sf, cj_disk,
            cj_runs, cj_fetched_at, cj_last>>

(***************************************************************************)
(* Concurrent POST /generate requests: the committed rows of request_data  *)
(* and static_files and each handler's transaction                         *)
(***************************************************************************)
VARIABLES
    pg_rd,          \* committed request_data rows
    pg_sf,          \* committed static_files rows
    pg_tx,          \* per handler: its position, its key, the rows it holds
    pg_posts,       \* per handler: requests it has answered
    pg_ok           \* the responses of the requests that succeeded

pgVars == <<pg_rd, pg_sf, pg_tx, pg_posts, pg_ok>>

(***************************************************************************)
(* Cleanup: the request_data and static_files rows, the files under the    *)
(* static directory and the last clean_all                                 *)
(***************************************************************************)
VARIABLES
    cl_now,         \* the clock
    cl_rd,          \* request id -> RequestData row, NoRow when absent
    cl_sf,          \* request id -> its StaticFile row, NoRow when absent
    cl_files,       \* relative paths of the *.json files on disk
    cl_last         \* the last clean_all: its argument and its counts

clVars == <<cl_now, cl_rd, cl_sf, cl_files, cl_last>>

vars == <<genVars, refVars, vbVars, arVars, rgVars, rtVars, wlVars, trVars, rqVars, waVars, gsVars, svVars, cjVars, pgVars, clVars>>

\* the state outside each part of the model
nonGenVars == <<refVars, vbVars, arVars, rgVars, rtVars, wlVars, trVars, rqVars, waVars, gsVars, svVars, cjVars, pgVars, clVars>>
nonRefVars == <<genVars, vbVars, arVars, rgVars, rtVars, wlVars, trVars, rqVars, waVars, gsVars, svVars, cjVars, pgVars, clVars>>
nonVbVars == <<genVars, refVars, arVars, rgVars, rtVars, wlVars, trVars, rqVars, waVars, gsVars, svVars, cjVars, pgVars, clVars>>
nonArVars == <<genVars, refVars, vbVars, rgVars, rtVars, wlVars, trVars, rqVars, waVars, gsVars, svVars, cjVars, pgVars, clVars>>
nonRgVars == <<genVars, refVars, vbVars, arVars, rtVars, wlVars, trVars, rqVars, waVars, gsVars, svVars, cjVars, pgVars, clVars>>
nonRtVars == <<genVars, refVars, vbVars, arVars, rgVars, wlVars, trVars, rqVars, waVars, gsVars, svVars, cjVars, pgVars, clVars>>
nonWlVars == <<genVars, refVars, vbVars, arVars, rgVars, rtVars, trVars, rqVars, waVars, gsVars, svVars, cjVars, pgVars, clVars>>
nonTrVars == <<genVars, refVars, vbVars, arVars, rgVars, rtVars, wlVars, rqVars, waVars, gsVars, svVars, cjVars, pgVars, clVars>>
nonRqVars == <<genVars, refVars, vbVars, arVars, rgVars, rtVars, wlVars, trVars, waVars, gsVars, svVars, cjVars, pgVars, clVars>>
nonWaVars == <<genVars, refVars, vbVars, arVars, rgVars, rtVars, wlVars, trVars, rqVars, gsVars, svVars, cjVars, pgVars, clVars>>
nonGsVars == <<genVars, refVars, vbVars, arVars, rgVars, rtVars, wlVars, trVars, rqVars, waVars, svVars, cjVars, pgVars, clVars>>
nonSvVars == <<genVars, refVars, vbVars, arVars, rgVars, rtVars, wlVars, trVars, rqVars, waVars, gsVars, cjVars, pgVars, clVars>>
nonCjVars == <<genVars, refVars, vbVars, arVars, rgVars, rtVars, wlVars, trVars, rqVars, waVars, gsVars, svVars, pgVars, clVars>>
nonPgVars == <<genVars, refVars, vbVars, arVars, rgVars, rtVars, wlVars, trVars, rqVars, waVars, gsVars, svVars, cjVars, clVars>>
nonClVars == <<genVars, refVars, vbVars, arVars, rgVars, rtVars, wlVars, trVars, rqVars, waVars, gsVars, svVars, cjVars, pgVars>>

(***************************************************************************)
(* models.py: RefreshFrequency and RequestData.needs_refresh               *)
(***************************************************************************)
\* datetime.date(): the calendar day of an instant
DateOf(t) == t \div Day

\* RefreshFrequency.for_event_date; (event_date - now).days is a floor division
for_event_date(event_date, t) ==
    IF event_date = None THEN "hourly"
    ELSE LET days_until == (event_date - t) \div Day IN
         IF days_until < 0
         THEN IF DateOf(event_date) = DateOf(t) THEN "live" ELSE "none"
         ELSE IF days_until = 0 THEN "live"
         ELSE IF days_until <= HOURLY_MAX_DAYS THEN "hourly"
         ELSE "daily"

\* RefreshFrequency.get_interval_seconds
get_interval_seconds(frequency) ==
    CASE frequency = "live" -> LIVE_INTERVAL
      [] frequency = "hourly" -> HOURLY_INTERVAL
      [] frequency = "daily" -> DAILY_INTERVAL
      [] frequency = "none" -> 0

\* RequestData.needs_refresh, evaluated at instant t
needs_refresh_NoNone(rd, t) ==
    IF rd.is_ended THEN FALSE
    ELSE LET frequency == for_event_date(rd.event_date, t) IN
         IF rd.last_refreshed = None THEN TRUE
         ELSE (t - rd.last_refreshed) >= get_interval_seconds(frequency)

needs_refresh_Strict(rd, t) ==
    IF rd.is_ended THEN FALSE
    ELSE LET frequency == for_event_date(rd.event_date, t) IN
         IF frequency = "none" THEN FALSE
         ELSE IF rd.last_refreshed = None THEN TRUE
         ELSE (t - rd.last_refreshed) > get_interval_seconds(frequency)

needs_refresh(rd, t) ==
    IF rd.is_ended THEN FALSE
    ELSE LET frequency == for_event_date(rd.event_date, t) IN
         IF frequency = "none" THEN FALSE
         ELSE IF rd.last_refreshed = None THEN TRUE
         ELSE (t - rd.last_refreshed) >= get_interval_seconds(frequency)

(***************************************************************************)
(* odds_client.py / providers: fetch, transform, hash                      *)
(***************************************************************************)
\* what the provider can answer to get_odds for the event: no usable odds,
\* or a payload with the bookmakers' price and the completed flag
Payloads == [date : {commence}, price : 1..MaxPrice, completed : BOOLEAN]
Answers == Payloads \cup {NoData}

\* OddsAPIClient._transform_odds: None without usable bookmaker odds;
\* a missing date becomes datetime.now(); generated_at is datetime.now()
transform_odds(data, t) ==
    IF data = NoData THEN NoDoc
    ELSE [commence_time |-> IF data.date = None THEN t ELSE data.date,
          price |-> data.price,
          is_ended |-> data.completed,
          generated_at |-> t]

\* OddsAPIProvider.compute_hash: MD5 over the sorted-key JSON of the whole
\* dumped document, modelled as an injective encoding of all its fields
compute_hash(doc) == <<doc.commence_time, doc.price, doc.is_ended, doc.generated_at>>

\* RequestData.is_ended after a generation that wrote the file
IsEndedAssign(old, odds_is_ended) == odds_is_ended

IsEndedAfter(old, odds_is_ended) == IF odds_is_ended THEN TRUE ELSE old

get_file_info_AlwaysPending(sf) ==
    IF sf = NoRow
    THEN [code |-> 404, status |-> "none"]
    ELSE [code |-> 200, status |-> "pending"]

\* GET /files/{request_id} on the committed StaticFile row of the request
get_file_info(sf) ==
    IF sf = NoRow
    THEN [code |-> 404, status |-> "none"]
    ELSE [code |-> 200,
          status |-> IF sf.hash # NoHash THEN "completed" ELSE "pending"]

generate_static_file_IgnoreForce(sf, rd, data, t, force) ==
    LET odds_data == transform_odds(data, t) IN
    IF odds_data = NoDoc
    THEN [ret |-> FALSE, wrote |-> FALSE, file |-> NoFile, sf |-> sf, rd |-> rd]
    ELSE LET new_hash == compute_hash(odds_data) IN
         IF sf.hash = new_hash
         THEN [ret |-> FALSE, wrote |-> FALSE, file |-> NoFile, sf |-> sf, rd |-> rd]
         ELSE [ret |-> TRUE, wrote |-> TRUE,
               file |-> [lastModified |-> t,
                         data |-> [commence_time |-> odds_data.commence_time,
                                   price |-> odds_data.price],
                         isEnded |-> odds_data.is_ended,
                         hash |-> new_hash],
               sf |-> [sf EXCEPT !.hash = new_hash, !.last_modified = t],
               rd |-> [rd EXCEPT !.event_date = odds_data.commence_time,
                                 !.is_ended = IsEndedAfter(rd.is_ended, odds_data.is_ended)]]

\* StaticFileService.generate_static_file on the session's objects sf and rd,
\* with the payload the provider answered and the clock at t
generate_static_file(sf, rd, data, t, force) ==
    LET odds_data == transform_odds(data, t) IN
    IF odds_data = NoDoc
    THEN [ret |-> FALSE, wrote |-> FALSE, file |-> NoFile, sf |-> sf, rd |-> rd]
    ELSE LET new_hash == compute_hash(odds_data) IN
         IF ~force /\ sf.hash = new_hash
         THEN [ret |-> FALSE, wrote |-> FALSE, file |-> NoFile, sf |-> sf, rd |-> rd]
         ELSE [ret |-> TRUE, wrote |-> TRUE,
               file |-> [lastModified |-> t,
                         data |-> [commence_time |-> odds_data.commence_time,
                                   price |-> odds_data.price],
                         isEnded |-> odds_data.is_ended,
                         hash |-> new_hash],
               sf |-> [sf EXCEPT !.hash = new_hash, !.last_modified = t],
               rd |-> [rd EXCEPT !.event_date = odds_data.commence_time,
                                 !.is_ended = IsEndedAfter(rd.is_ended, odds_data.is_ended)]]

\* Session flush at commit: the UPDATE carries only the attributes whose
\* value differs from the one loaded
FlushRow(committed, loaded, current) ==
    IF committed = NoRow \/ current = NoRow THEN committed
    ELSE [f \in DOMAIN committed |->
            IF current[f] # loaded[f] THEN current[f] ELSE committed[f]]

NewRequestData == [is_ended |-> FALSE, event_date |-> None, last_refreshed |-> None]
NewStaticFile == [hash |-> NoHash, last_modified |-> None]

IdleRun == [pc |-> "idle", kind |-> "none", ret |-> "none", data |-> NoData,
            sf0 |-> NoRow, sf |-> NoRow, rd0 |-> NoRow, rd |-> NoRow]

\* handlers and tasks are interchangeable: a new one takes the first free slot
FreeSlot(r) == runs[r].pc = "idle" /\ \A q \in Runs : q < r => runs[q].pc # "idle"

IdleCron == [pc |-> "idle", ret |-> "none", data |-> NoData,
             rd0 |-> NoRow, rd |-> NoRow, sf0 |-> NoRow, sf |-> NoRow]

GenInit ==
    /\ now = StartTime
    /\ ticks = 0
    /\ commence \in EventDates
    /\ request_data = NoRow
    /\ static_files = NoRow
    /\ disk = NoFile
    /\ arq_pool \in BOOLEAN
    /\ jobs = 0
    /\ runs = [r \in Runs |-> IdleRun]
    /\ cron = IdleCron

\* the clock advances
Tick ==
    /\ ticks < MaxTicks
    /\ \E d \in TickSteps : now' = now + d
    /\ ticks' = ticks + 1
    /\ UNCHANGED <<commence, request_data, static_files, disk, arq_pool, jobs, runs, cron>>
    /\ UNCHANGED nonGenVars

\* POST /generate: get-or-create both rows, commit, then enqueue the worker
\* task or start the synchronous generation in the handler's session
PostGenerate(r) ==
    /\ FreeSlot(r)
    /\ LET rd == IF request_data = NoRow THEN NewRequestData ELSE request_data
           sf == IF static_files = NoRow THEN NewStaticFile ELSE static_files
       IN /\ request_data' = rd
          /\ static_files' = sf
          /\ IF arq_pool
             THEN /\ jobs < MaxQueued
                  /\ jobs' = jobs + 1
                  /\ UNCHANGED runs
             ELSE /\ runs' = [runs EXCEPT ![r] = [pc |-> "loaded", kind |-> "route",
                                                  ret |-> "none", data |-> NoData,
                                                  sf0 |-> sf, sf |-> sf,
                                                  rd0 |-> rd, rd |-> rd]]
                  /\ UNCHANGED jobs
    /\ UNCHANGED <<now, ticks, commence, disk, arq_pool, cron>>
    /\ UNCHANGED nonGenVars

\* generate_static_file_task: take a job, load the StaticFile and its RequestData
TaskStart(r) ==
    /\ FreeSlot(r)
    /\ jobs > 0
    /\ jobs' = jobs - 1
    /\ IF static_files = NoRow
       THEN UNCHANGED runs
       ELSE runs' = [runs EXCEPT ![r] = [pc |-> "loaded", kind |-> "task",
                                         ret |-> "none", data |-> NoData,
                                         sf0 |-> static_files, sf |-> static_files,
                                         rd0 |-> request_data, rd |-> request_data]]
    /\ UNCHANGED <<now, ticks, commence, request_data, static_files, disk, arq_pool, cron>>
    /\ UNCHANGED nonGenVars

\* the provider answers the run's get_odds and generate_static_file runs to
\* its return
RunGenerate(r) ==
    /\ runs[r].pc = "loaded"
    /\ \E data \in Answers :
         LET g == generate_static_file(runs[r].sf, runs[r].rd, data, now, FALSE)
         IN /\ runs' = [runs EXCEPT ![r].pc = "generated",
                                    ![r].ret = g.ret, ![r].data = data,
                                    ![r].sf = g.sf, ![r].rd = g.rd]
            /\ disk' = IF g.wrote THEN g.file ELSE disk
    /\ UNCHANGED <<now, ticks, commence, request_data, static_files, arq_pool, jobs, cron>>
    /\ UNCHANGED nonGenVars

\* the provider call fails (timeout, rate limit, HTTP or network error): the
\* exception leaves the handler or task and its session is discarded
RunFail(r) ==
    /\ runs[r].pc = "loaded"
    /\ runs' = [runs EXCEPT ![r] = IdleRun]
    /\ UNCHANGED <<now, ticks, commence, request_data, static_files, disk, arq_pool, jobs, cron>>
    /\ UNCHANGED nonGenVars

\* db.commit() after generate_static_file returned
RunCommit(r) ==
    /\ runs[r].pc = "generated"
    /\ static_files' = FlushRow(static_files, runs[r].sf0, runs[r].sf)
    /\ request_data' = FlushRow(request_data, runs[r].rd0, runs[r].rd)
    /\ runs' = [runs EXCEPT ![r] = IdleRun]
    /\ UNCHANGED <<now, ticks, commence, disk, arq_pool, jobs, cron>>
    /\ UNCHANGED nonGenVars

\* the loop guard of refresh_active_odds: the row, selected as not ended,
\* is regenerated only when needs_refresh() holds
CronAlways(rd, t) == TRUE

CronDue(rd, t) == needs_refresh(rd, t)

\* refresh_active_odds up to the call of generate_static_file: select the
\* rows with is_ended == False, skip a row that is not due or has no
\* StaticFile, otherwise load the StaticFile
CronStart ==
    /\ cron.pc = "idle"
    /\ request_data # NoRow
    /\ ~request_data.is_ended
    /\ cron' = [cron EXCEPT !.pc = "loop", !.rd0 = request_data, !.rd = request_data]
    /\ UNCHANGED <<now, ticks, commence, request_data, static_files, disk, arq_pool, jobs, runs>>
    /\ UNCHANGED nonGenVars

CronNext ==
    /\ cron.pc = "loop"
    /\ IF ~CronDue(cron.rd, now) \/ static_files = NoRow
       THEN cron' = [cron EXCEPT !.pc = "commit"]
       ELSE cron' = [cron EXCEPT !.pc = "fetch", !.sf0 = static_files, !.sf = static_files]
    /\ UNCHANGED <<now, ticks, commence, request_data, static_files, disk, arq_pool, jobs, runs>>
    /\ UNCHANGED nonGenVars

\* the provider answers the cron's get_odds; on success last_refreshed is set
CronGenerate ==
    /\ cron.pc = "fetch"
    /\ \E data \in Answers :
         LET g == generate_static_file(cron.sf, cron.rd, data, now, FALSE)
             rd2 == IF g.ret THEN [g.rd EXCEPT !.last_refreshed = now] ELSE g.rd
         IN /\ cron' = [cron EXCEPT !.pc = "commit", !.ret = g.ret, !.data = data,
                                    !.sf = g.sf, !.rd = rd2]
            /\ disk' = IF g.wrote THEN g.file ELSE disk
    /\ UNCHANGED <<now, ticks, commence, request_data, static_files, arq_pool, jobs, runs>>
    /\ UNCHANGED nonGenVars

\* the provider call of the cron fails: the exception is caught and counted
CronFail ==
    /\ cron.pc = "fetch"
    /\ cron' = [cron EXCEPT !.pc = "commit"]
    /\ UNCHANGED <<now, ticks, commence, request_data, static_files, disk, arq_pool, jobs, runs>>
    /\ UNCHANGED nonGenVars

\* the single db.commit() at the end of refresh_active_odds
CronCommit ==
    /\ cron.pc = "commit"
    /\ static_files' = FlushRow(static_files, cron.sf0, cron.sf)
    /\ request_data' = FlushRow(request_data, cron.rd0, cron.rd)
    /\ cron' = IdleCron
    /\ UNCHANGED <<now, ticks, commence, disk, arq_pool, jobs, runs>>
    /\ UNCHANGED nonGenVars

GenNext ==
    \/ Tick
    \/ \E r \in Runs : PostGenerate(r)
    \/ \E r \in Runs : TaskStart(r)
    \/ \E r \in Runs : RunGenerate(r)
    \/ \E r \in Runs : RunFail(r)
    \/ \E r \in Runs : RunCommit(r)
    \/ CronStart
    \/ CronNext
    \/ CronGenerate
    \/ CronFail
    \/ CronCommit

(***************************************************************************)
(* The refresh policy as a function                                        *)
(***************************************************************************)
\* clock readings of the call: half past midnight and noon of day 10
RefreshNows == {10 * Day + 1800, StartTime}

\* event_date relative to the clock: whole days back and ahead, each taken
\* one second early, on time, one second late and one hour late
EventOffsets == {d * Day + e : d \in (0 - MaxDaysBack)..MaxDaysAhead, e \in {-1, 0, 1, 3600}}

\* time elapsed since last_refreshed: around each tier interval
ElapsedValues ==
    {i + e : i \in {0, LIVE_INTERVAL, 2 * LIVE_INTERVAL, HOURLY_INTERVAL, DAILY_INTERVAL},
             e \in {-1, 0, 1}} \cap Nat

RefInit ==
    /\ rf_now \in RefreshNows
    /\ rf_rd \in [is_ended : BOOLEAN,
                  event_date : {rf_now + o : o \in EventOffsets} \cup {None},
                  last_refreshed : {rf_now - e : e \in ElapsedValues} \cup {None}]
    /\ rf_pc = "call"
    /\ rf_out = FALSE

\* request_data.needs_refresh()
CallNeedsRefresh ==
    /\ rf_pc = "call"
    /\ rf_pc' = "done"
    /\ rf_out' = needs_refresh(rf_rd, rf_now)
    /\ UNCHANGED <<rf_now, rf_rd>>
    /\ UNCHANGED nonRefVars

RefNext == CallNeedsRefresh

(***************************************************************************)
(* odds_client.py: get_value_bets                                          *)
(***************************************************************************)
\* the bookmakers of the call, in the order of the region's list
VBBookmakers == <<"betano", "pixbet">>

VBTasks == 1..Len(VBBookmakers)

\* raw entries the upstream /value-bets endpoint can answer with; expected
\* value in tenths; event_ok is FALSE when "event" is not an object
RawValueBets ==
    { [id |-> "a1", bookmaker |-> "betano", ev |-> 55, sport |-> "Football",
       league |-> "Premier League", event_ok |-> TRUE],
      [id |-> "a2", bookmaker |-> "betano", ev |-> 10, sport |-> "Football",
       league |-> "La Liga", event_ok |-> TRUE],
      [id |-> "a3", bookmaker |-> "betano", ev |-> 55, sport |-> "Football",
       league |-> "Premier League", event_ok |-> FALSE],
      [id |-> "b1", bookmaker |-> "pixbet", ev |-> 55, sport |-> "Ice Hockey",
       league |-> "NHL", event_ok |-> TRUE],
      [id |-> "b2", bookmaker |-> "pixbet", ev |-> 30, sport |-> "Football",
       league |-> "Premier League", event_ok |-> TRUE],
      [id |-> "b3", bookmaker |-> "pixbet", ev |-> 55, sport |-> "Football",
       league |-> "La Liga", event_ok |-> TRUE] }

\* the sequences of at most n elements of S
RECURSIVE ListsOver(_, _)
ListsOver(S, n) ==
    IF n = 0 THEN {<<>>}
    ELSE LET shorter == ListsOver(S, n - 1) IN
         shorter \cup {Append(l, x) : l \in shorter, x \in S}

\* the lists upstream can answer with for one bookmaker
VBAnswers(bm) ==
    {l \in ListsOver({r \in RawValueBets : r.bookmaker = bm}, MaxRaw) :
        \A i, j \in 1..Len(l) : i # j => l[i] # l[j]}

\* query parameters of the call; "" stands for an absent filter
VBArgs == [sport : {"", "FOOTBALL"}, league : {"", "Premier-League"},
           min_ev : {0, 20}, limit : (0 - 1)..MaxLimit]

\* str.lower() on the strings of the model
Lower(s) ==
    CASE s = "FOOTBALL" -> "football"
      [] s = "Football" -> "football"
      [] s = "Ice Hockey" -> "ice hockey"
      [] s = "Premier League" -> "premier league"
      [] s = "Premier-League" -> "premier-league"
      [] s = "La Liga" -> "la liga"
      [] s = "NHL" -> "nhl"
      [] OTHER -> s

\* str.replace(" ", "-") on the strings of the model
Dashed(s) ==
    CASE s = "ice hockey" -> "ice-hockey"
      [] s = "premier league" -> "premier-league"
      [] s = "la liga" -> "la-liga"
      [] OTHER -> s

\* to_slug of _transform_value_bet
to_slug(s) == Dashed(Lower(s))

NoBet == [nobet |-> TRUE]

\* _transform_value_bet: None when "event" is not an object
transform_value_bet(raw) ==
    IF ~raw.event_ok THEN NoBet
    ELSE [id |-> raw.id, bookmaker |-> raw.bookmaker, expected_value |-> raw.ev,
          sport_slug |-> to_slug(raw.sport), league_slug |-> to_slug(raw.league)]

\* the filters of get_value_bets on a transformed bet
PassesFilters(bet, args) ==
    /\ bet # NoBet
    /\ ~(bet.expected_value < args.min_ev)
    /\ ~(args.sport # "" /\ Lower(bet.sport_slug) # Lower(args.sport))
    /\ ~(args.league # "" /\ Lower(bet.league_slug) # Lower(args.league))

\* the loop of get_value_bets: transform each raw bet, keep the ones that pass
RECURSIVE TransformAndFilter(_, _)
TransformAndFilter(raws, args) ==
    IF raws = <<>> THEN <<>>
    ELSE LET bet == transform_value_bet(Head(raws))
             rest == TransformAndFilter(Tail(raws), args)
         IN IF PassesFilters(bet, args) THEN <<bet>> \o rest ELSE rest

\* list.sort(key=expected_value, reverse=True): stable, ties keep their order
RECURSIVE InsertDesc(_, _)
InsertDesc(bet, sorted) ==
    IF sorted = <<>> THEN <<bet>>
    ELSE IF Head(sorted).expected_value >= bet.expected_value
         THEN <<Head(sorted)>> \o InsertDesc(bet, Tail(sorted))
         ELSE <<bet>> \o sorted

RECURSIVE SortDesc(_)
SortDesc(bets) ==
    IF bets = <<>> THEN <<>>
    ELSE InsertDesc(Head(bets), SortDesc(Tail(bets)))

\* the slice s[:limit]; a negative limit counts from the end
SliceTo(s, limit) ==
    IF limit >= 0
    THEN SubSeq(s, 1, IF limit < Len(s) THEN limit ELSE Len(s))
    ELSE SubSeq(s, 1, IF Len(s) + limit > 0 THEN Len(s) + limit ELSE 0)

\* asyncio.gather(*tasks, return_exceptions=True): the results in the order
\* of the tasks
GatherInCompletionOrder(results, order) == [i \in 1..Len(order) |-> results[order[i]]]

Gather(results, order) == [i \in VBTasks |-> results[i]]

\* all_bets: the lists among the results, concatenated
RECURSIVE MergeResults(_)
MergeResults(results) ==
    IF results = <<>> THEN <<>>
    ELSE (IF Head(results).state = "ok" THEN Head(results).data ELSE <<>>)
         \o MergeResults(Tail(results))

\* get_value_bets after the gather
value_bets_response(results, args) ==
    SliceTo(SortDesc(TransformAndFilter(MergeResults(results), args)), args.limit)

CacheMiss == [hit |-> FALSE, data |-> <<>>]
Pending == [state |-> "pending", data |-> <<>>]
Failed == [state |-> "failed", data |-> <<>>]
NoArgs == [sport |-> "", league |-> "", min_ev |-> 0, limit |-> 0]

VBNames == {VBBookmakers[i] : i \in VBTasks}

\* the cache holds nothing or an earlier answer under each bookmaker's key
VBInit ==
    /\ vb_cache \in {c \in [VBNames -> [hit : BOOLEAN, data : UNION {VBAnswers(bm) : bm \in VBNames}]] :
                        \A bm \in VBNames : c[bm] = CacheMiss
                                            \/ (c[bm].hit /\ c[bm].data \in VBAnswers(bm))}
    /\ vb_args = NoArgs
    /\ vb_results = [i \in VBTasks |-> Pending]
    /\ vb_order = <<>>
    /\ vb_pc = "idle"
    /\ vb_out = <<>>

\* get_value_bets is called: one task per bookmaker is created
VBCall ==
    /\ vb_pc = "idle"
    /\ vb_args' \in VBArgs
    /\ vb_pc' = "gather"
    /\ UNCHANGED <<vb_cache, vb_results, vb_order, vb_out>>
    /\ UNCHANGED nonVbVars

\* get_value_bets_for_bookmaker, _request answered from the cache
VBFetchCached(i) ==
    /\ vb_pc = "gather"
    /\ vb_results[i] = Pending
    /\ vb_cache[VBBookmakers[i]].hit
    /\ vb_results' = [vb_results EXCEPT ![i] = [state |-> "ok", data |-> vb_cache[VBBookmakers[i]].data]]
    /\ vb_order' = Append(vb_order, i)
    /\ UNCHANGED <<vb_cache, vb_args, vb_pc, vb_out>>
    /\ UNCHANGED nonVbVars

\* get_value_bets_for_bookmaker, _request answered by upstream and cached
VBFetchUpstream(i) ==
    /\ vb_pc = "gather"
    /\ vb_results[i] = Pending
    /\ ~vb_cache[VBBookmakers[i]].hit
    /\ \E data \in VBAnswers(VBBookmakers[i]) :
         /\ vb_results' = [vb_results EXCEPT ![i] = [state |-> "ok", data |-> data]]
         /\ vb_cache' = [vb_cache EXCEPT ![VBBookmakers[i]] = [hit |-> TRUE, data |-> data]]
    /\ vb_order' = Append(vb_order, i)
    /\ UNCHANGED <<vb_args, vb_pc, vb_out>>
    /\ UNCHANGED nonVbVars

\* get_value_bets_for_bookmaker, _request raises (timeout, rate limit,
\* provider error): the task's result is the exception
VBFetchFail(i) ==
    /\ vb_pc = "gather"
    /\ vb_results[i] = Pending
    /\ ~vb_cache[VBBookmakers[i]].hit
    /\ vb_results' = [vb_results EXCEPT ![i] = Failed]
    /\ vb_order' = Append(vb_order, i)
    /\ UNCHANGED <<vb_cache, vb_args, vb_pc, vb_out>>
    /\ UNCHANGED nonVbVars

\* every task has completed: merge, transform, filter, sort, slice, return
VBReturn ==
    /\ vb_pc = "gather"
    /\ \A i \in VBTasks : vb_results[i] # Pending
    /\ vb_out' = value_bets_response(Gather(vb_results, vb_order), vb_args)
    /\ vb_pc' = "done"
    /\ UNCHANGED <<vb_cache, vb_args, vb_results, vb_order>>
    /\ UNCHANGED nonVbVars

VBNext ==
    \/ VBCall
    \/ \E i \in VBTasks : VBFetchCached(i)
    \/ \E i \in VBTasks : VBFetchUpstream(i)
    \/ \E i \in VBTasks : VBFetchFail(i)
    \/ VBReturn

(***************************************************************************)
(* odds_client.py: get_arbitrage_bets                                      *)
(***************************************************************************)
\* raw entries the upstream /arbitrage-bets endpoint can hold; profit margin
\* in tenths; event_ok is FALSE when "event" is not an object
RawArbitrageBets ==
    { [id |-> "p1", profit |-> 25, sport |-> "Football", event_ok |-> TRUE],
      [id |-> "p2", profit |-> 8, sport |-> "Football", event_ok |-> TRUE],
      [id |-> "p3", profit |-> 40, sport |-> "Ice Hockey", event_ok |-> TRUE],
      [id |-> "p4", profit |-> 25, sport |-> "Football", event_ok |-> FALSE] }

\* the candidate lists upstream can hold
ArbUpstreams ==
    {l \in ListsOver(RawArbitrageBets, MaxArbs) :
        \A i, j \in 1..Len(l) : i # j => l[i] # l[j]}

\* query parameters of a call; "" stands for an absent filter
ArbArgs == [sport : {"", "FOOTBALL"}, min_profit : {0, 10}, limit : {1, 2, 50}]

\* the limit parameter get_arbitrage_bets sends upstream
upstream_limit(limit) ==
    IF limit * ARBITRAGE_FETCH_FACTOR < ARBITRAGE_FETCH_CAP
    THEN limit * ARBITRAGE_FETCH_FACTOR ELSE ARBITRAGE_FETCH_CAP

\* upstream answers with its first candidates, at most the requested number
upstream_answer(lim) ==
    SubSeq(ar_upstream, 1, IF lim < Len(ar_upstream) THEN lim ELSE Len(ar_upstream))

\* _transform_arbitrage_bet: None when "event" is not an object
transform_arbitrage_bet(raw) ==
    IF ~raw.event_ok THEN NoBet
    ELSE [id |-> raw.id, profit_margin |-> raw.profit, sport_slug |-> to_slug(raw.sport)]

\* the loop of get_arbitrage_bets: transform each raw bet, keep the ones
\* that pass the filters
RECURSIVE ArbTransformAndFilter(_, _)
ArbTransformAndFilter(raws, args) ==
    IF raws = <<>> THEN <<>>
    ELSE LET bet == transform_arbitrage_bet(Head(raws))
             rest == ArbTransformAndFilter(Tail(raws), args)
         IN IF /\ bet # NoBet
               /\ ~(bet.profit_margin < args.min_profit)
               /\ ~(args.sport # "" /\ Lower(bet.sport_slug) # Lower(args.sport))
            THEN <<bet>> \o rest ELSE rest

\* list.sort(key=profit_margin, reverse=True): stable
RECURSIVE ArbInsertDesc(_, _)
ArbInsertDesc(bet, sorted) ==
    IF sorted = <<>> THEN <<bet>>
    ELSE IF Head(sorted).profit_margin >= bet.profit_margin
         THEN <<Head(sorted)>> \o ArbInsertDesc(bet, Tail(sorted))
         ELSE <<bet>> \o sorted

RECURSIVE ArbSortDesc(_)
ArbSortDesc(bets) ==
    IF bets = <<>> THEN <<>>
    ELSE ArbInsertDesc(Head(bets), ArbSortDesc(Tail(bets)))

\* get_arbitrage_bets after _request returned data
arbitrage_response(data, args) ==
    SliceTo(ArbSortDesc(ArbTransformAndFilter(data, args)), args.limit)

NoArbArgs == [sport |-> "", min_profit |-> 0, limit |-> 1]
ArbCacheMiss == [hit |-> FALSE, data |-> <<>>, limit |-> 0, expires |-> 0]

\* cache_service.get: the entry is there until its TTL has run out
ArbCached == ar_cache.hit /\ ar_now < ar_cache.expires

ArbInit ==
    /\ ar_now = 0
    /\ ar_upstream \in ArbUpstreams
    /\ ar_cache = ArbCacheMiss
    /\ ar_args = NoArbArgs
    /\ ar_pc = "idle"
    /\ ar_src_limit = 0
    /\ ar_out = <<>>

\* one minute passes
ArbTick ==
    /\ ar_now < MaxArbTicks * 60
    /\ ar_now' = ar_now + 60
    /\ UNCHANGED <<ar_upstream, ar_cache, ar_args, ar_pc, ar_src_limit, ar_out>>
    /\ UNCHANGED nonArVars

\* get_arbitrage_bets, _request answered from the cache
ArbCallCached ==
    /\ ArbCached
    /\ \E args \in ArbArgs :
         /\ ar_args' = args
         /\ ar_out' = arbitrage_response(ar_cache.data, args)
    /\ ar_src_limit' = ar_cache.limit
    /\ ar_pc' = "done"
    /\ UNCHANGED <<ar_now, ar_upstream, ar_cache>>
    /\ UNCHANGED nonArVars

\* get_arbitrage_bets, _request answered by upstream and cached
ArbCallUpstream ==
    /\ ~ArbCached
    /\ \E args \in ArbArgs :
         LET data == upstream_answer(upstream_limit(args.limit)) IN
         /\ ar_args' = args
         /\ ar_cache' = [hit |-> TRUE, data |-> data,
                         limit |-> upstream_limit(args.limit),
                         expires |-> ar_now + ARBITRAGE_CACHE_TTL]
         /\ ar_src_limit' = upstream_limit(args.limit)
         /\ ar_out' = arbitrage_response(data, args)
    /\ ar_pc' = "done"
    /\ UNCHANGED <<ar_now, ar_upstream>>
    /\ UNCHANGED nonArVars

\* get_arbitrage_bets, _request raises: the error leaves the call and
\* nothing is cached
ArbCallFail ==
    /\ ~ArbCached
    /\ \E args \in ArbArgs : ar_args' = args
    /\ ar_pc' = "error"
    /\ ar_out' = <<>>
    /\ ar_src_limit' = 0
    /\ UNCHANGED <<ar_now, ar_upstream, ar_cache>>
    /\ UNCHANGED nonArVars

ArbNext ==
    \/ ArbTick
    \/ ArbCallCached
    \/ ArbCallUpstream
    \/ ArbCallFail

(***************************************************************************)
(* region_filter.py: get_bookmakers_for_region                             *)
(***************************************************************************)
Regions == {"br", "fr", "uk", "es", "it", "de", "mx", "ar", "co"}

\* config.py: DEFAULT_REGION_BOOKMAKERS
REGION_BOOKMAKERS ==
    [region \in Regions |->
        CASE region = "br" -> <<"betano", "pixbet", "kto", "betclic", "winamax">>
          [] region = "fr" -> <<"betclic", "winamax", "unibet", "pmu", "zebet">>
          [] region = "uk" -> <<"bet365", "william_hill", "ladbrokes", "paddy_power", "betfair">>
          [] region = "es" -> <<"bet365", "betway", "codere", "sportium", "888sport">>
          [] region = "it" -> <<"bet365", "sisal", "snai", "goldbet", "lottomatica">>
          [] region = "de" -> <<"bet365", "tipico", "bwin", "betway", "unibet">>
          [] region = "mx" -> <<"caliente", "betway", "bet365", "codere", "1xbet">>
          [] region = "ar" -> <<"bet365", "betsson", "betway", "codere", "bwin">>
          [] region = "co" -> <<"betplay", "wplay", "bet365", "betsson", "1xbet">>]

\* bookmaker keys a caller asks for: allowed somewhere, allowed nowhere,
\* and a key in another letter case
RequestedKeys == {"betano", "bet365", "winamax", "Betano", "draftkings"}

\* requested is None
NoList == [is_none |-> TRUE, list |-> <<>>]

RequestedLists ==
    {NoList} \cup {[is_none |-> FALSE, list |-> l] : l \in ListsOver(RequestedKeys, MaxRequested)}

\* the elements of a list
Elements(l) == {l[k] : k \in 1..Len(l)}

\* [b for b in requested if b not in allowed]
RECURSIVE NotIn(_, _)
NotIn(requested, allowed) ==
    IF requested = <<>> THEN <<>>
    ELSE (IF Head(requested) \in Elements(allowed) THEN <<>> ELSE <<Head(requested)>>)
         \o NotIn(Tail(requested), allowed)

RECURSIVE OnlyIn(_, _)
OnlyIn(requested, allowed) ==
    IF requested = <<>> THEN <<>>
    ELSE (IF Head(requested) \in Elements(allowed) THEN <<Head(requested)>> ELSE <<>>)
         \o OnlyIn(Tail(requested), allowed)

Returned(bookmakers) ==
    [status |-> 200, bookmakers |-> bookmakers, invalid |-> <<>>, allowed |-> <<>>]

\* HTTPException(400) whose detail carries the invalid and the allowed list
Raised400(invalid, allowed) ==
    [status |-> 400, bookmakers |-> <<>>, invalid |-> invalid, allowed |-> allowed]

\* get_allowed_bookmakers: every Region has an entry
get_allowed_bookmakers(region) == REGION_BOOKMAKERS[region]

get_bookmakers_for_region_Lenient(region, requested) ==
    LET allowed == get_allowed_bookmakers(region) IN
    IF requested.is_none \/ requested.list = <<>> THEN Returned(allowed)
    ELSE Returned(OnlyIn(requested.list, allowed))

get_bookmakers_for_region(region, requested) ==
    LET allowed == get_allowed_bookmakers(region) IN
    IF requested.is_none \/ requested.list = <<>> THEN Returned(allowed)
    ELSE LET invalid == NotIn(requested.list, allowed) IN
         IF invalid # <<>> THEN Raised400(invalid, allowed)
         ELSE Returned(requested.list)

RgInit ==
    /\ rg_region \in Regions
    /\ rg_requested \in RequestedLists
    /\ rg_pc = "call"
    /\ rg_ret = Returned(<<>>)

CallGetBookmakersForRegion ==
    /\ rg_pc = "call"
    /\ rg_pc' = "done"
    /\ rg_ret' = get_bookmakers_for_region(rg_region, rg_requested)
    /\ UNCHANGED <<rg_region, rg_requested>>
    /\ UNCHANGED nonRgVars

RgNext == CallGetBookmakersForRegion

(***************************************************************************)
(* api/routes: odds.py, value_bets.py, arbitrage.py, static_files.py       *)
(***************************************************************************)
Endpoints == {"odds", "odds_multi", "odds_updated", "odds_movements",
              "value_bets", "arbitrage_bets", "generate"}

\* endpoints that take one bookmaker instead of a list
SingleBookmakerEndpoints == {"odds_updated", "odds_movements"}

\* endpoints without a bookmakers parameter
NoBookmakerEndpoints == {"value_bets", "arbitrage_bets"}

\* number of ids in eventIds of /odds/multi: none, some, more than 10
EventIdCounts == {0, 1, 11}
MAX_EVENTS_PER_REQUEST == 10

\* settings.bookmakers_list
default_bookmakers == <<"betano", "sportingbet", "betfair", "bet365">>

\* bookmaker names as the upstream answer spells them
UpstreamNames == {"Betano", "Bet365", "William Hill"}

\* bm_name.lower().replace(" ", "_")
BookmakerKey(name) ==
    CASE name = "Betano" -> "betano"
      [] name = "Bet365" -> "bet365"
      [] name = "William Hill" -> "william_hill"
      [] OTHER -> name

\* bookmakers.split(",") if bookmakers else None; the parameter is held as
\* its comma-separated pieces, the empty string as the empty list
SplitParam(param) == IF param.is_none \/ param.list = <<>> THEN NoList ELSE param

\* what a route does before any provider answer: the status it rejects with
\* or the bookmakers it calls the provider with
Reject(status) == [status |-> status, call |-> FALSE, bookmakers |-> <<>>, rows |-> FALSE]
CallProvider(bookmakers, rows) ==
    [status |-> 0, call |-> TRUE, bookmakers |-> bookmakers, rows |-> rows]

validate_bookmaker_access_Off(bookmaker, region) == TRUE

\* validate_bookmaker_access: TRUE when it returns, FALSE when it raises 400
validate_bookmaker_access(bookmaker, region) ==
    bookmaker \in Elements(get_allowed_bookmakers(region))

\* GET /odds
route_get_odds(req) ==
    LET bm == get_bookmakers_for_region(req.region, SplitParam(req.bookmakers)) IN
    IF bm.status # 200 THEN Reject(bm.status) ELSE CallProvider(bm.bookmakers, FALSE)

\* GET /odds/multi
route_get_odds_multi(req) ==
    IF req.ids = 0 THEN Reject(400)
    ELSE IF req.ids > MAX_EVENTS_PER_REQUEST THEN Reject(400)
    ELSE route_get_odds(req)

\* GET /odds/updated
route_get_odds_updated(req) ==
    LET given == ~req.bookmakers.is_none /\ req.bookmakers.list # <<>> IN
    IF given /\ ~validate_bookmaker_access(req.bookmakers.list[1], req.region)
    THEN Reject(400)
    ELSE CallProvider(IF given THEN req.bookmakers.list ELSE <<>>, FALSE)

\* GET /odds/movements
route_get_odds_movements(req) ==
    LET given == ~req.bookmakers.is_none /\ req.bookmakers.list # <<>>
        allowed == get_allowed_bookmakers(req.region)
    IN IF given /\ ~validate_bookmaker_access(req.bookmakers.list[1], req.region)
       THEN Reject(400)
       ELSE CallProvider(IF given THEN req.bookmakers.list ELSE <<allowed[1]>>, FALSE)

\* GET /value-bets and GET /arbitrage-bets
list_bets(req) ==
    LET bm == get_bookmakers_for_region(req.region, NoList) IN
    IF bm.status # 200 THEN Reject(bm.status) ELSE CallProvider(bm.bookmakers, FALSE)

\* POST /generate: the rows are created, then the provider is called with
\* request.bookmakers or settings.bookmakers_list, in the handler or by the
\* queued task
generate_odds_file(req) ==
    CallProvider(IF req.bookmakers.is_none \/ req.bookmakers.list = <<>>
                 THEN default_bookmakers ELSE req.bookmakers.list, TRUE)

route(req) ==
    CASE req.endpoint = "odds" -> route_get_odds(req)
      [] req.endpoint = "odds_multi" -> route_get_odds_multi(req)
      [] req.endpoint = "odds_updated" -> route_get_odds_updated(req)
      [] req.endpoint = "odds_movements" -> route_get_odds_movements(req)
      [] req.endpoint \in NoBookmakerEndpoints -> list_bets(req)
      [] req.endpoint = "generate" -> generate_odds_file(req)

NotCalled == [called |-> FALSE, bookmakers |-> <<>>]

RtRequests ==
    {req \in [endpoint : Endpoints, region : Regions,
              bookmakers : RequestedLists, ids : EventIdCounts] :
        /\ req.endpoint \in SingleBookmakerEndpoints => Len(req.bookmakers.list) <= 1
        /\ req.endpoint \in NoBookmakerEndpoints => req.bookmakers = NoList
        /\ req.endpoint # "odds_multi" => req.ids = 1}

RtInit ==
    /\ rt_req \in RtRequests
    /\ rt_pc = "recv"
    /\ rt_status = 0
    /\ rt_passed = NotCalled
    /\ rt_rows = FALSE
    /\ rt_resp = {}

\* the handler up to its provider call, or to the 400 it raises
RtHandle ==
    /\ rt_pc = "recv"
    /\ LET plan == route(rt_req) IN
       /\ rt_pc' = IF plan.call THEN "calling" ELSE "rejected"
       /\ rt_status' = plan.status
       /\ rt_passed' = [called |-> plan.call, bookmakers |-> plan.bookmakers]
       /\ rt_rows' = plan.rows
    /\ UNCHANGED <<rt_req, rt_resp>>
    /\ UNCHANGED nonRtVars

\* the provider answers with the data of some bookmakers and the handler
\* returns it
RtAnswer ==
    /\ rt_pc = "calling"
    /\ rt_resp' \in SUBSET UpstreamNames
    /\ rt_pc' = "done"
    /\ rt_status' = 200
    /\ UNCHANGED <<rt_req, rt_passed, rt_rows>>
    /\ UNCHANGED nonRtVars

RtNext ==
    \/ RtHandle
    \/ RtAnswer

(***************************************************************************)
(* services/league_whitelist_service.py and services/league_filter.py      *)
(* A slug is the sequence of its characters.                               *)
(***************************************************************************)
UefaEuro2028 == <<"u","e","f","a","-","e","u","r","o","-","2","0","2","8">>
UefaNationsLeague ==
    <<"u","e","f","a","-","n","a","t","i","o","n","s","-","l","e","a","g","u","e">>
UefaEuroStar == <<"u","e","f","a","-","e","u","r","o","*">>

\* league slugs of events and of exact whitelist rows
LeagueSlugs == {<<"a">>, <<"a","b">>, <<"b","a">>, UefaEuro2028, UefaNationsLeague}

\* whitelist rows with a wildcard
WildcardSlugs ==
    {<<"*">>, <<"?">>, <<"a","*">>, <<"*","a">>, <<"a","?">>, <<"?","?">>, UefaEuroStar}

HasChar(slug, c) == \E i \in 1..Len(slug) : slug[i] = c

\* sequences over S of length at most n
SeqsUpTo(S, n) == UNION {[1..k -> S] : k \in 0..n}

\* fnmatch.fnmatch on slugs and patterns without bracket classes
RECURSIVE fnmatch(_, _)
fnmatch(name, pat) ==
    IF pat = <<>> THEN name = <<>>
    ELSE IF Head(pat) = "*"
         THEN fnmatch(name, Tail(pat)) \/ (name # <<>> /\ fnmatch(Tail(name), pat))
         ELSE /\ name # <<>>
              /\ Head(pat) = "?" \/ Head(pat) = Head(name)
              /\ fnmatch(Tail(name), Tail(pat))

\* get_allowed_leagues_with_patterns: the split of the rows
RECURSIVE split_whitelist(_)
split_whitelist(slugs) ==
    IF slugs = <<>> THEN [exact |-> {}, patterns |-> <<>>]
    ELSE LET rest == split_whitelist(Tail(slugs))
             slug == Head(slugs)
         IN IF HasChar(slug, "*") \/ HasChar(slug, "?")
            THEN [exact |-> rest.exact, patterns |-> <<slug>> \o rest.patterns]
            ELSE [exact |-> rest.exact \cup {slug}, patterns |-> rest.patterns]

is_league_allowed_ExactOnly(league_slug, exact_matches, patterns) ==
    league_slug \in exact_matches

is_league_allowed(league_slug, exact_matches, patterns) ==
    IF league_slug \in exact_matches THEN TRUE
    ELSE \E i \in 1..Len(patterns) : fnmatch(league_slug, patterns[i])

RECURSIVE Comprehension(_, _, _)
Comprehension(events, exact_matches, patterns) ==
    IF events = <<>> THEN <<>>
    ELSE (IF is_league_allowed(Head(events).league, exact_matches, patterns)
          THEN <<Head(events)>> ELSE <<>>)
         \o Comprehension(Tail(events), exact_matches, patterns)

filter_events_by_whitelist(events, exact_matches, patterns) ==
    IF exact_matches = {} /\ patterns = <<>> THEN events
    ELSE Comprehension(events, exact_matches, patterns)

\* the events of a request: the i-th has id i
EventLists ==
    {[i \in 1..Len(leagues) |-> [id |-> i, league |-> leagues[i]]] :
        leagues \in SeqsUpTo(LeagueSlugs, MaxEvents)}

WlInit ==
    /\ wl_rows \in SeqsUpTo(LeagueSlugs \cup WildcardSlugs, MaxRows)
    /\ wl_events \in EventLists
    /\ wl_exact = {}
    /\ wl_patterns = <<>>
    /\ wl_pc = "load"
    /\ wl_out = <<>>

\* the route loads the whitelist
LoadWhitelist ==
    /\ wl_pc = "load"
    /\ LET split == split_whitelist(wl_rows) IN
       /\ wl_exact' = split.exact
       /\ wl_patterns' = split.patterns
    /\ wl_pc' = "filter"
    /\ UNCHANGED <<wl_rows, wl_events, wl_out>>
    /\ UNCHANGED nonWlVars

\* and filters the events it fetched
FilterEvents ==
    /\ wl_pc = "filter"
    /\ wl_out' = filter_events_by_whitelist(wl_events, wl_exact, wl_patterns)
    /\ wl_pc' = "done"
    /\ UNCHANGED <<wl_rows, wl_events, wl_exact, wl_patterns>>
    /\ UNCHANGED nonWlVars

WlNext ==
    \/ LoadWhitelist
    \/ FilterEvents

(***************************************************************************)
(* services/odds_client.py: the market transformers                        *)
(* Prices and line values are counted in tenths.                           *)
(***************************************************************************)
Markets == {"1x2", "asian_handicap", "totals", "btts", "correct_score", "double_chance"}
LineMarkets == {"asian_handicap", "totals"}

\* the number of prices of one odds entry
Arity(market) ==
    CASE market \in {"1x2", "double_chance"} -> 3
      [] market \in {"asian_handicap", "totals", "btts"} -> 2
      [] market = "correct_score" -> 1

\* price strings of the upstream API
GoodPrice == "1.90"
PriceTokens == {"1.90", "2.10", "0", "-1.50", "N/A"}

\* float(s): ok is FALSE where it raises ValueError
ParseFloat(s) ==
    CASE s = "1.90" -> [ok |-> TRUE, val |-> 19]
      [] s = "2.10" -> [ok |-> TRUE, val |-> 21]
      [] s = "0" -> [ok |-> TRUE, val |-> 0]
      [] s = "-1.50" -> [ok |-> TRUE, val |-> -15]
      [] OTHER -> [ok |-> FALSE, val |-> 0]

\* updatedAt / last_update strings
Timestamps == {"2026-01-13T20:45:00Z", "", "yesterday"}

\* datetime.fromisoformat(s.replace("Z", "+00:00")) if s else datetime.now():
\* ok is FALSE where it raises ValueError
ParseUpdatedAt(s) ==
    CASE s = "" -> [ok |-> TRUE, val |-> "now"]
      [] s = "2026-01-13T20:45:00Z" -> [ok |-> TRUE, val |-> "2026-01-13T20:45:00+00:00"]
      [] OTHER -> [ok |-> FALSE, val |-> ""]

\* hdp / line values
LineValues == {-10, -5}
ScoreValues == {"1-0", ""}

\* the prices of an odds entry: all good but one, which is any price string
PriceTuples(n) ==
    {[k \in 1..n |-> IF k = pos THEN tok ELSE GoodPrice] : pos \in 1..n, tok \in PriceTokens}

OddsEntries(market) ==
    [line : IF market \in LineMarkets THEN LineValues ELSE {0},
     score : IF market = "correct_score" THEN ScoreValues ELSE {""},
     prices : PriceTuples(Arity(market))]

\* markets that read a list of entries, the others read the first entry
ListedMarkets == LineMarkets \cup {"correct_score"}

BookmakerEntries(market, name) ==
    [name : {name},
     odds : SeqsUpTo(OddsEntries(market), IF market \in ListedMarkets THEN MaxLines ELSE 1),
     updatedAt : Timestamps]

GoodEntry(market) ==
    [line |-> IF market \in LineMarkets THEN -5 ELSE 0,
     score |-> IF market = "correct_score" THEN "1-0" ELSE "",
     prices |-> [k \in 1..Arity(market) |-> GoodPrice]]

\* a second bookmaker: well-formed, with an unparsable timestamp, or with an
\* unparsable price
OtherBookmakers(market) ==
    {[name |-> "Bet365", odds |-> <<GoodEntry(market)>>, updatedAt |-> "2026-01-13T20:45:00Z"],
     [name |-> "Bet365", odds |-> <<GoodEntry(market)>>, updatedAt |-> "yesterday"],
     [name |-> "Bet365",
      odds |-> <<[GoodEntry(market) EXCEPT !.prices[1] = "N/A"]>>,
      updatedAt |-> "2026-01-13T20:45:00Z"]}

\* "dict": bookmakers keyed by name; "list": the fallback shape of 1x2
Shapes(market) == IF market = "1x2" THEN {"dict", "list"} ELSE {"dict"}

\* the payloads with bm as the bookmaker of full variety: alone, before or
\* after a second bookmaker
TrPayloadsWith(market, shape, bm) ==
    {[market |-> market, shape |-> shape, bookmakers |-> <<bm>>]}
    \cup {[market |-> market, shape |-> shape, bookmakers |-> <<bm, other>>] :
            other \in OtherBookmakers(market)}
    \cup {[market |-> market, shape |-> shape, bookmakers |-> <<other, bm>>] :
            other \in OtherBookmakers(market)}

Floats(prices) == [k \in 1..Len(prices) |-> ParseFloat(prices[k]).val]
AllParse(prices) == \A k \in 1..Len(prices) : ParseFloat(prices[k]).ok
AllPositive(vals) == \A k \in 1..Len(vals) : vals[k] > 0
\* Python truthiness of a float: anything but zero
AllTruthy(vals) == \A k \in 1..Len(vals) : vals[k] # 0

\* what the loop body does with one bookmaker: "continue", "append" (with
\* the entry) or "raise" (an exception no inner try catches)
Continue == [does |-> "continue", entry |-> <<>>]
Raise == [does |-> "raise", entry |-> <<>>]
AppendEntry(bm, lines) ==
    IF ~ParseUpdatedAt(bm.updatedAt).ok THEN Raise
    ELSE [does |-> "append",
          entry |-> [key |-> BookmakerKey(bm.name), name |-> bm.name, lines |-> lines,
                     updated_at |-> ParseUpdatedAt(bm.updatedAt).val]]
\* the same with the timestamp parsed inside the try
AppendEntryGuarded(bm, lines) ==
    IF ~ParseUpdatedAt(bm.updatedAt).ok THEN Continue ELSE AppendEntry(bm, lines)

OutLine(e) == [line |-> e.line, score |-> e.score, prices |-> Floats(e.prices)]

\* _transform_odds, dict shape
odds_dict_bookmaker(bm) ==
    IF bm.odds = <<>> THEN Continue
    ELSE LET e == bm.odds[1] IN
         IF ~AllParse(e.prices) THEN Continue
         ELSE IF AllTruthy(Floats(e.prices)) THEN AppendEntry(bm, <<OutLine(e)>>)
         ELSE Continue

\* _transform_odds, list shape: an entry with fewer than three outcomes is
\* the empty odds
odds_list_bookmaker(bm) ==
    IF bm.odds = <<>> THEN Continue
    ELSE LET e == bm.odds[1] IN
         IF ~AllParse(e.prices) THEN Raise
         ELSE IF AllPositive(Floats(e.prices)) THEN AppendEntry(bm, <<OutLine(e)>>)
         ELSE Continue

\* the parse loop over the odds entries of a line market
RECURSIVE ParseLines(_)
ParseLines(odds) ==
    IF odds = <<>> THEN <<>>
    ELSE LET e == Head(odds) IN
         (IF AllParse(e.prices) /\ AllPositive(Floats(e.prices))
          THEN <<OutLine(e)>> ELSE <<>>) \o ParseLines(Tail(odds))

\* list.sort(key=line): ascending and stable
RECURSIVE LineInsert(_, _)
LineInsert(x, sorted) ==
    IF sorted = <<>> THEN <<x>>
    ELSE IF x.line < Head(sorted).line THEN <<x>> \o sorted
    ELSE <<Head(sorted)>> \o LineInsert(x, Tail(sorted))

LineSort_None(lines) == lines

RECURSIVE LineSort(_)
LineSort(lines) ==
    IF lines = <<>> THEN <<>>
    ELSE LineInsert(lines[Len(lines)], LineSort(SubSeq(lines, 1, Len(lines) - 1)))

\* _transform_asian_handicap and _transform_totals
lines_bookmaker(bm) ==
    IF bm.odds = <<>> THEN Continue
    ELSE LET lines == ParseLines(bm.odds) IN
         IF lines # <<>> THEN AppendEntry(bm, LineSort(lines)) ELSE Continue

\* _transform_btts and _transform_double_chance
single_bookmaker(bm) ==
    IF bm.odds = <<>> THEN Continue
    ELSE LET e == bm.odds[1] IN
         IF ~AllParse(e.prices) THEN Continue
         ELSE IF AllPositive(Floats(e.prices)) THEN AppendEntryGuarded(bm, <<OutLine(e)>>)
         ELSE Continue

\* _transform_correct_score
RECURSIVE ParseScores(_)
ParseScores(odds) ==
    IF odds = <<>> THEN <<>>
    ELSE LET e == Head(odds) IN
         (IF AllParse(e.prices) /\ e.score # "" /\ AllPositive(Floats(e.prices))
          THEN <<OutLine(e)>> ELSE <<>>) \o ParseScores(Tail(odds))

scores_bookmaker(bm) ==
    LET scores == ParseScores(bm.odds) IN
    IF scores # <<>> THEN AppendEntry(bm, scores) ELSE Continue

transform_bookmaker(market, shape, bm) ==
    CASE market = "1x2" /\ shape = "dict" -> odds_dict_bookmaker(bm)
      [] market = "1x2" /\ shape = "list" -> odds_list_bookmaker(bm)
      [] market \in LineMarkets -> lines_bookmaker(bm)
      [] market \in {"btts", "double_chance"} -> single_bookmaker(bm)
      [] market = "correct_score" -> scores_bookmaker(bm)

TrNone == [is_none |-> TRUE, bookmakers |-> <<>>]

\* the for loop: the entries appended so far, or "raise"
RECURSIVE bookmaker_loop(_, _, _)
bookmaker_loop(market, shape, bookmakers) ==
    IF bookmakers = <<>> THEN [raised |-> FALSE, bookmaker_odds |-> <<>>]
    ELSE LET first == transform_bookmaker(market, shape, Head(bookmakers))
             rest == bookmaker_loop(market, shape, Tail(bookmakers))
         IN IF first.does = "raise" \/ rest.raised
            THEN [raised |-> TRUE, bookmaker_odds |-> <<>>]
            ELSE [raised |-> FALSE,
                  bookmaker_odds |->
                      (IF first.does = "append" THEN <<first.entry>> ELSE <<>>)
                      \o rest.bookmaker_odds]

\* a transformer as a whole: the outer except returns None, and so does an
\* empty result
transform_market(payload) ==
    LET loop == bookmaker_loop(payload.market, payload.shape, payload.bookmakers) IN
    IF loop.raised THEN TrNone
    ELSE IF loop.bookmaker_odds = <<>> THEN TrNone
    ELSE [is_none |-> FALSE, bookmakers |-> loop.bookmaker_odds]

TrInit ==
    /\ \E market \in Markets : \E shape \in Shapes(market) :
          \E bm \in BookmakerEntries(market, "Betano") :
             tr_payload \in TrPayloadsWith(market, shape, bm)
    /\ tr_pc = "call"
    /\ tr_out = TrNone

CallTransform ==
    /\ tr_pc = "call"
    /\ tr_out' = transform_market(tr_payload)
    /\ tr_pc' = "done"
    /\ UNCHANGED tr_payload
    /\ UNCHANGED nonTrVars

TrNext ==
    \/ CallTransform

(***************************************************************************)
(* services/odds_client.py (_request, get_event), services/cache.py,       *)
(* main.py (exception handlers), api/routes/events.py                      *)
(***************************************************************************)
cache_ttl_events == 300
RqTickStep == 150

\* Python values of response.json(): None, an empty dict, an event dict
PyNone == "None"
PyValues == {PyNone, "{}", "{id: 1}"}

\* json.dumps / json.loads
JsonDumps(value) ==
    CASE value = PyNone -> "null"
      [] value = "{}" -> "{}"
      [] value = "{id: 1}" -> "{\"id\": \"1\"}"

JsonLoads(text) ==
    CASE text = "null" -> PyNone
      [] text = "{}" -> "{}"
      [] text = "{\"id\": \"1\"}" -> "{id: 1}"

\* what Redis answers for a key it does not hold
RedisNil == "(nil)"
NoEntry == [present |-> FALSE, value |-> RedisNil, expires |-> 0]

\* client.get(key): the value of an entry that has not expired
redis_get(cache, at) ==
    IF cache.present /\ at < cache.expires THEN cache.value ELSE RedisNil

\* CacheService.get: json.loads of a truthy value, else None
cache_get(cache, at) ==
    LET value == redis_get(cache, at) IN
    IF value # RedisNil /\ value # "" THEN JsonLoads(value) ELSE PyNone

\* CacheService.set: client.set(key, json.dumps(value), ex=ttl)
cache_set(value, ttl, at) ==
    [present |-> TRUE, value |-> JsonDumps(value), expires |-> at + ttl]

\* Retry-After headers of an upstream 429: absent, seconds, an HTTP date
RetryAfterHeaders == {"", "30", "Wed, 21 Oct 2026 07:28:00 GMT"}

\* int(headers.get("Retry-After", 60)): ok is FALSE where it raises ValueError
ParseRetryAfter(header) ==
    CASE header = "" -> [ok |-> TRUE, val |-> 60]
      [] header = "30" -> [ok |-> TRUE, val |-> 30]
      [] OTHER -> [ok |-> FALSE, val |-> 0]

\* statuses for which raise_for_status raises
ErrorStatuses == {302, 404, 429, 500}

\* what upstream does with one GET
UpstreamAnswers ==
    {[kind |-> "ok", body |-> b, status |-> 200, retry_after |-> ""] : b \in PyValues}
    \cup {[kind |-> "timeout", body |-> PyNone, status |-> 0, retry_after |-> ""]}
    \cup {[kind |-> "network", body |-> PyNone, status |-> 0, retry_after |-> ""]}
    \cup UNION {{[kind |-> "status", body |-> PyNone, status |-> s, retry_after |-> h] :
                    h \in IF s = 429 THEN RetryAfterHeaders ELSE {""}} :
                 s \in ErrorStatuses}

NoAnswer == [kind |-> "none", body |-> PyNone, status |-> 0, retry_after |-> ""]

\* the outcome of _request for an upstream answer: the value returned or the
\* exception raised (None is -1 for status_code and retry_after)
Returns(data) ==
    [outcome |-> "return", data |-> data, error |-> "", status_code |-> None,
     retry_after |-> None]
Raises(error, status_code, retry_after) ==
    [outcome |-> "raise", data |-> PyNone, error |-> error, status_code |-> status_code,
     retry_after |-> retry_after]

request_outcome(answer) ==
    CASE answer.kind = "ok" -> Returns(answer.body)
      [] answer.kind = "timeout" -> Raises("ProviderTimeoutError", None, None)
      [] answer.kind = "network" -> Raises("ProviderError", None, None)
      [] answer.kind = "status" ->
            IF answer.status = 429
            THEN IF ParseRetryAfter(answer.retry_after).ok
                 THEN Raises("RateLimitError", None, ParseRetryAfter(answer.retry_after).val)
                 ELSE Raises("ValueError", None, None)
            ELSE Raises("ProviderError", answer.status, None)

\* the exception handlers of main.py; an exception without a handler is a 500
handler_status(error, status_code) ==
    CASE error = "RateLimitError" -> 429
      [] error = "ProviderTimeoutError" -> 504
      [] error = "EventNotFoundError" -> 404
      [] error = "ProviderError" ->
            IF status_code # None /\ status_code # 0 /\ 400 <= status_code /\ status_code < 600
            THEN status_code ELSE 502
      [] OTHER -> 500

\* GET /events/{id}: get_event_by_id over get_event over _request
get_event_by_id(result) ==
    IF result.outcome = "raise"
    THEN [status |-> handler_status(result.error, result.status_code),
          retry_after |-> result.retry_after]
    ELSE IF result.data = PyNone \/ result.data = "{}"
         THEN [status |-> handler_status("EventNotFoundError", None), retry_after |-> None]
         ELSE [status |-> 200, retry_after |-> None]

NoLast ==
    [held |-> FALSE, at |-> 0, gets |-> 0, tracked |-> 0, wrote |-> FALSE,
     answer |-> NoAnswer, result |-> Returns(PyNone)]
NoResponse == [status |-> 0, retry_after |-> None]

RqInit ==
    /\ rq_now = 0
    /\ rq_cache = NoEntry
    /\ rq_calls = 0
    /\ rq_gets = 0
    /\ rq_api_calls = 0
    /\ rq_last = NoLast
    /\ rq_http = NoResponse

RqTick ==
    /\ rq_now < MaxReqTicks * RqTickStep
    /\ rq_now' = rq_now + RqTickStep
    /\ UNCHANGED <<rq_cache, rq_calls, rq_gets, rq_api_calls, rq_last, rq_http>>
    /\ UNCHANGED nonRqVars

\* a request whose _request finds a cached value
RequestHit ==
    /\ rq_calls < MaxCalls
    /\ cache_get(rq_cache, rq_now) # PyNone
    /\ rq_calls' = rq_calls + 1
    /\ rq_last' = [held |-> redis_get(rq_cache, rq_now) # RedisNil, at |-> rq_now,
                   gets |-> 0, tracked |-> 0, wrote |-> FALSE, answer |-> NoAnswer,
                   result |-> Returns(cache_get(rq_cache, rq_now))]
    /\ rq_http' = get_event_by_id(rq_last'.result)
    /\ UNCHANGED <<rq_now, rq_cache, rq_gets, rq_api_calls>>
    /\ UNCHANGED nonRqVars

\* a request whose _request goes upstream and gets this answer
RequestUpstream(answer) ==
    /\ rq_calls < MaxCalls
    /\ cache_get(rq_cache, rq_now) = PyNone
    /\ rq_calls' = rq_calls + 1
    /\ rq_api_calls' = rq_api_calls + 1
    /\ rq_gets' = rq_gets + 1
    /\ rq_cache' = IF answer.kind = "ok"
                   THEN cache_set(answer.body, cache_ttl_events, rq_now)
                   ELSE rq_cache
    /\ rq_last' = [held |-> redis_get(rq_cache, rq_now) # RedisNil, at |-> rq_now,
                   gets |-> 1, tracked |-> 1, wrote |-> answer.kind = "ok",
                   answer |-> answer, result |-> request_outcome(answer)]
    /\ rq_http' = get_event_by_id(rq_last'.result)
    /\ UNCHANGED rq_now
    /\ UNCHANGED nonRqVars

RequestOk == \E answer \in UpstreamAnswers : answer.kind = "ok" /\ RequestUpstream(answer)
RequestTimeout ==
    \E answer \in UpstreamAnswers : answer.kind = "timeout" /\ RequestUpstream(answer)
RequestHTTPError ==
    \E answer \in UpstreamAnswers : answer.kind = "status" /\ RequestUpstream(answer)
RequestNetworkError ==
    \E answer \in UpstreamAnswers : answer.kind = "network" /\ RequestUpstream(answer)

RqNext ==
    \/ RqTick
    \/ RequestHit
    \/ RequestOk
    \/ RequestTimeout
    \/ RequestHTTPError
    \/ RequestNetworkError

(***************************************************************************)
(* services/league_whitelist_service.py: add_league, remove_league,        *)
(* toggle_league, sync_default_whitelist over models.LeagueWhitelist       *)
(***************************************************************************)
WaSports == {"football", "tennis"}
WaSlugs == {<<"a">>, <<"a", "*">>}
WaNames == {"A", "B"}

\* default_whitelist arguments of sync_default_whitelist
DefaultEntries ==
    {[sport |-> "football", league_slug |-> <<"a">>, league_name |-> "A"],
     [sport |-> "football", league_slug |-> <<"a", "*">>, league_name |-> "A"],
     [sport |-> "tennis", league_slug |-> <<"a">>, league_name |-> "A"]}

\* the positions of the rows of a (sport, league_slug) pair
RowsOf(table, sport, league_slug) ==
    {i \in 1..Len(table) : table[i].sport = sport /\ table[i].league_slug = league_slug}

\* the unique index uq_sport_league reports a conflict for the pair
Conflict(table, sport, league_slug) == RowsOf(table, sport, league_slug) # {}

NewRow(sport, league_slug, league_name) ==
    [sport |-> sport, league_slug |-> league_slug, league_name |-> league_name,
     is_active |-> TRUE]

\* insert(...) without an ON CONFLICT clause
insert_plain(table, sport, league_slug, league_name) ==
    Append(table, NewRow(sport, league_slug, league_name))

\* insert(...).on_conflict_do_update(set_={league_name, is_active: True})
insert_on_conflict_do_update(table, sport, league_slug, league_name) ==
    IF Conflict(table, sport, league_slug)
    THEN [i \in 1..Len(table) |->
            IF i \in RowsOf(table, sport, league_slug)
            THEN [table[i] EXCEPT !.league_name = league_name, !.is_active = TRUE]
            ELSE table[i]]
    ELSE Append(table, NewRow(sport, league_slug, league_name))

\* delete(...).where(sport, league_slug)
delete_where(table, sport, league_slug) ==
    SelectSeq(table, LAMBDA r : ~(r.sport = sport /\ r.league_slug = league_slug))

\* update(...).where(sport, league_slug).values(is_active)
update_where(table, sport, league_slug, is_active) ==
    [i \in 1..Len(table) |->
        IF i \in RowsOf(table, sport, league_slug)
        THEN [table[i] EXCEPT !.is_active = is_active]
        ELSE table[i]]

\* the loop of sync_default_whitelist: insert(...).on_conflict_do_nothing()
\* for each entry, counting the statements with rowcount > 0
RECURSIVE sync_loop(_, _, _)
sync_loop(table, entries, count) ==
    IF entries = <<>> THEN [table |-> table, count |-> count]
    ELSE LET entry == Head(entries) IN
         IF Conflict(table, entry.sport, entry.league_slug)
         THEN sync_loop(table, Tail(entries), count)
         ELSE sync_loop(Append(table, NewRow(entry.sport, entry.league_slug,
                                             entry.league_name)),
                        Tail(entries), count + 1)

\* get_allowed_leagues_with_patterns(session, sport): the active slugs, of
\* the sport when one is given, split into exact matches and patterns
active_slugs(table, sport) ==
    LET rows == SelectSeq(table, LAMBDA r : r.is_active /\ (sport = "" \/ r.sport = sport))
    IN [i \in 1..Len(rows) |-> rows[i].league_slug]

get_allowed_leagues_with_patterns(table, sport) == split_whitelist(active_slugs(table, sport))

NoCall ==
    [op |-> "none", sport |-> "", league_slug |-> <<>>, is_active |-> FALSE,
     existed |-> FALSE, ret |-> 0]

WaInit ==
    /\ wa_table = <<>>
    /\ wa_last = NoCall

add_league(sport, league_slug, league_name) ==
    /\ wa_table' = insert_on_conflict_do_update(wa_table, sport, league_slug, league_name)
    /\ wa_last' = [op |-> "add", sport |-> sport, league_slug |-> league_slug,
                   is_active |-> TRUE, existed |-> Conflict(wa_table, sport, league_slug),
                   ret |-> 1]
    /\ UNCHANGED nonWaVars

AddLeague ==
    \E sport \in WaSports, league_slug \in WaSlugs, league_name \in WaNames :
        add_league(sport, league_slug, league_name)

\* rowcount, returned as rowcount > 0
remove_league(sport, league_slug) ==
    /\ wa_table' = delete_where(wa_table, sport, league_slug)
    /\ wa_last' = [op |-> "remove", sport |-> sport, league_slug |-> league_slug,
                   is_active |-> FALSE, existed |-> Conflict(wa_table, sport, league_slug),
                   ret |-> Cardinality(RowsOf(wa_table, sport, league_slug))]
    /\ UNCHANGED nonWaVars

RemoveLeague ==
    \E sport \in WaSports, league_slug \in WaSlugs : remove_league(sport, league_slug)

toggle_league(sport, league_slug, is_active) ==
    /\ wa_table' = update_where(wa_table, sport, league_slug, is_active)
    /\ wa_last' = [op |-> "toggle", sport |-> sport, league_slug |-> league_slug,
                   is_active |-> is_active,
                   existed |-> Conflict(wa_table, sport, league_slug),
                   ret |-> Cardinality(RowsOf(wa_table, sport, league_slug))]
    /\ UNCHANGED nonWaVars

ToggleLeague ==
    \E sport \in WaSports, league_slug \in WaSlugs, is_active \in BOOLEAN :
        toggle_league(sport, league_slug, is_active)

sync_default_whitelist(default_whitelist) ==
    /\ LET done == sync_loop(wa_table, default_whitelist, 0) IN
       /\ wa_table' = done.table
       /\ wa_last' = [op |-> "sync", sport |-> "", league_slug |-> <<>>,
                      is_active |-> TRUE, existed |-> FALSE, ret |-> done.count]
    /\ UNCHANGED nonWaVars

SyncDefaultWhitelist ==
    \E default_whitelist \in SeqsUpTo(DefaultEntries, MaxDefaults) :
        sync_default_whitelist(default_whitelist)

WaNext ==
    \/ AddLeague
    \/ RemoveLeague
    \/ ToggleLeague
    \/ SyncDefaultWhitelist

(***************************************************************************)
(* services/static_file.py: generate_static_file with every argument       *)
(***************************************************************************)
\* what the provider answers to a direct call
GsAnswers == [date : EventDates, price : 1..MaxPrice, completed : BOOLEAN] \cup {NoData}

NoGsCall == [data |-> NoData, force |-> FALSE, ret |-> FALSE, called |-> FALSE]

GsInit ==
    /\ gs_now = StartTime
    /\ gs_sf = NewStaticFile
    /\ gs_rd = NewRequestData
    /\ gs_disk = NoFile
    /\ gs_last = NoGsCall

\* one call of generate_static_file, the write of lines 137-138 included
GenerateStaticFile ==
    \E data \in GsAnswers, force \in BOOLEAN :
        LET g == generate_static_file(gs_sf, gs_rd, data, gs_now, force) IN
        /\ gs_sf' = g.sf
        /\ gs_rd' = g.rd
        /\ gs_disk' = IF g.wrote THEN g.file ELSE gs_disk
        /\ gs_last' = [data |-> data, force |-> force, ret |-> g.ret, called |-> TRUE]
        /\ UNCHANGED gs_now
        /\ UNCHANGED nonGsVars

\* the clock advances between calls
GsTick ==
    /\ gs_now - StartTime < MaxTicks * LIVE_INTERVAL
    /\ gs_now' = gs_now + LIVE_INTERVAL
    /\ UNCHANGED <<gs_sf, gs_rd, gs_disk, gs_last>>
    /\ UNCHANGED nonGsVars

GsNext ==
    \/ GenerateStaticFile
    \/ GsTick

(***************************************************************************)
(* services/static_file.py lines 133-138 and the readers of the file:      *)
(* routes/static_files.py serve_static_file, get_file_content              *)
(***************************************************************************)
\* json.dump(output, f): the document as the text written to the file,
\* one chunk per member between the braces
JsonDump(output) ==
    <<"{", <<"lastModified", output.lastModified>>, <<"data", output.data>>,
      <<"isEnded", output.isEnded>>, <<"hash", output.hash>>, "}">>

JSONDecodeError == [error |-> "JSONDecodeError"]

\* json.load(f): the document of a complete text, an error for any other text
JsonLoad(text) ==
    IF Len(text) = 6 /\ text[1] = "{" /\ text[6] = "}"
    THEN [lastModified |-> text[2][2], data |-> text[3][2],
          isEnded |-> text[4][2], hash |-> text[5][2]]
    ELSE JSONDecodeError

IdleWriter == [pc |-> "idle", text |-> <<>>, sf |-> NoRow]
NoRead == [reader |-> "none", status |-> 0, body |-> <<>>]

SvInit ==
    /\ sv_disk = NoFile
    /\ sv_sf = NewStaticFile
    /\ sv_writer = IdleWriter
    /\ sv_read = NoRead

\* generate_static_file up to open(full_path, "w"): the provider answers, the
\* hash differs, and opening the file for writing truncates it
GenerateOpen ==
    /\ sv_writer.pc = "idle"
    /\ \E data \in GsAnswers :
         LET g == generate_static_file(sv_sf, NewRequestData, data, StartTime, FALSE) IN
         /\ g.wrote
         /\ sv_disk' = [text |-> <<>>]
         /\ sv_writer' = [pc |-> "open", text |-> JsonDump(g.file), sf |-> g.sf]
    /\ UNCHANGED <<sv_sf, sv_read>>
    /\ UNCHANGED nonSvVars

\* json.dump writes chunk after chunk; the file object's buffer reaches the
\* file when it fills
GenerateDump ==
    /\ sv_writer.pc = "open"
    /\ \E n \in (Len(sv_disk.text) + 1)..(Len(sv_writer.text) - 1) :
         sv_disk' = [text |-> SubSeq(sv_writer.text, 1, n)]
    /\ UNCHANGED <<sv_sf, sv_writer, sv_read>>
    /\ UNCHANGED nonSvVars

\* the with block ends: close() flushes the rest, then the row is updated
GenerateClose ==
    /\ sv_writer.pc = "open"
    /\ sv_disk' = [text |-> sv_writer.text]
    /\ sv_sf' = sv_writer.sf
    /\ sv_writer' = IdleWriter
    /\ UNCHANGED sv_read
    /\ UNCHANGED nonSvVars

\* GET /static/{path}: 404 without a file, otherwise the bytes at the path
serve_static_file(file) ==
    IF file = NoFile
    THEN [reader |-> "serve_static_file", status |-> 404, body |-> <<>>]
    ELSE [reader |-> "serve_static_file", status |-> 200, body |-> file.text]

ServeStaticFile ==
    /\ sv_read' = serve_static_file(sv_disk)
    /\ UNCHANGED <<sv_disk, sv_sf, sv_writer>>
    /\ UNCHANGED nonSvVars

\* StaticFileService.get_file_content: None without a file, otherwise
\* json.load of the text at the path
get_file_content(file) ==
    IF file = NoFile
    THEN [reader |-> "get_file_content", status |-> 404, body |-> <<>>]
    ELSE LET loaded == JsonLoad(file.text) IN
         IF loaded = JSONDecodeError
         THEN [reader |-> "get_file_content", status |-> 500, body |-> file.text]
         ELSE [reader |-> "get_file_content", status |-> 200, body |-> JsonDump(loaded)]

GetFileContent ==
    /\ sv_read' = get_file_content(sv_disk)
    /\ UNCHANGED <<sv_disk, sv_sf, sv_writer>>
    /\ UNCHANGED nonSvVars

SvNext ==
    \/ GenerateOpen
    \/ GenerateDump
    \/ GenerateClose
    \/ ServeStaticFile
    \/ GetFileContent

(***************************************************************************)
(* tasks/worker.py: generate_static_file_task, refresh_active_odds and     *)
(* the cron schedule of WorkerSettings                                     *)
(***************************************************************************)
\* cron(refresh_active_odds, minute={0, 5, ..., 55}): seconds between runs
CRON_PERIOD == 300

CjEventDates == EventDates \cup {StartTime + 7 * Day}

\* GenerateRequest.bookmakers: absent, or a list of the client's choice
CjRequests ==
    {[is_none |-> TRUE, list |-> <<>>], [is_none |-> FALSE, list |-> <<"bet365">>]}

CjAnswers == [date : {cj_commence}, price : 1..MaxPrice, completed : BOOLEAN] \cup {NoData}

\* request.bookmakers or settings.bookmakers_list
request_bookmakers(bookmakers) ==
    IF bookmakers.is_none \/ bookmakers.list = <<>>
    THEN default_bookmakers ELSE bookmakers.list

\* OddsAPIProvider.get_odds: bookmakers=None selects settings.bookmakers_list
get_odds_bookmakers(bookmakers) ==
    IF bookmakers.is_none THEN default_bookmakers ELSE bookmakers.list

NoBookmakers == [is_none |-> TRUE, list |-> <<>>]

NoCjRun ==
    [op |-> "none", run |-> 0, at |-> None, answer |-> NoData, fetched |-> FALSE,
     ret |-> FALSE, bookmakers |-> <<>>, tier |-> "none"]

\* the rows POST /generate created and committed
CjInit ==
    /\ cj_now = StartTime
    /\ cj_commence \in CjEventDates
    /\ cj_request \in CjRequests
    /\ cj_queued = TRUE
    /\ cj_rd = NewRequestData
    /\ cj_sf = NewStaticFile
    /\ cj_disk = NoFile
    /\ cj_runs = 0
    /\ cj_fetched_at = None
    /\ cj_last = NoCjRun

\* the generation the request asked for, by generate_static_file_task or in
\* the handler, with the request's bookmakers
GenerateStaticFileTask ==
    /\ cj_queued
    /\ \E answer \in CjAnswers :
         LET bookmakers == [is_none |-> FALSE, list |-> request_bookmakers(cj_request)]
             g == generate_static_file(cj_sf, cj_rd, answer, cj_now, FALSE)
         IN /\ cj_sf' = g.sf
            /\ cj_rd' = g.rd
            /\ cj_disk' = IF g.wrote THEN g.file ELSE cj_disk
            /\ cj_last' = [op |-> "task", run |-> cj_runs, at |-> cj_now,
                           answer |-> answer, fetched |-> TRUE, ret |-> g.ret,
                           bookmakers |-> get_odds_bookmakers(bookmakers),
                           tier |-> "none"]
    /\ cj_queued' = FALSE
    /\ UNCHANGED <<cj_now, cj_commence, cj_request, cj_runs, cj_fetched_at>>
    /\ UNCHANGED nonCjVars

\* one scheduled run of refresh_active_odds over the row: needs_refresh is
\* read when the run starts, datetime.now() of line 88 after the provider
\* answered and the file was written, elapsed seconds later
RefreshActiveOdds ==
    /\ cj_runs < MaxCronRuns
    /\ \E answer \in CjAnswers, elapsed \in 0..MaxDuration :
         LET started == StartTime + (cj_runs + 1) * CRON_PERIOD
             due == ~cj_rd.is_ended /\ needs_refresh(cj_rd, started)
             g == generate_static_file(cj_sf, cj_rd, answer, started + elapsed, FALSE)
         IN /\ cj_now' = IF due THEN started + elapsed ELSE started
            /\ cj_sf' = IF due THEN g.sf ELSE cj_sf
            /\ cj_rd' = IF ~due THEN cj_rd
                        ELSE IF g.ret
                             THEN [g.rd EXCEPT !.last_refreshed = started + elapsed]
                             ELSE g.rd
            /\ cj_disk' = IF due /\ g.wrote THEN g.file ELSE cj_disk
            /\ cj_fetched_at' = IF due THEN started ELSE cj_fetched_at
            /\ cj_last' = [op |-> "cron", run |-> cj_runs + 1, at |-> started,
                           answer |-> answer, fetched |-> due, ret |-> due /\ g.ret,
                           bookmakers |-> IF due THEN get_odds_bookmakers(NoBookmakers)
                                          ELSE <<>>,
                           tier |-> for_event_date(cj_rd.event_date, started)]
    /\ cj_runs' = cj_runs + 1
    /\ UNCHANGED <<cj_commence, cj_request, cj_queued>>
    /\ UNCHANGED nonCjVars

CjNext ==
    \/ GenerateStaticFileTask
    \/ RefreshActiveOdds

(***************************************************************************)
(* routes/static_files.py generate_odds_file over                          *)
(* get_or_create_request_data and get_or_create_static_file                *)
(***************************************************************************)
Handlers == {1, 2}

\* (provider, provider_id, market) with the one provider of the service
PgKeys == [provider_id : {"e1"}, market : {"1x2", "btts"}]

IdleTx ==
    [pc |-> "idle", key |-> [provider_id |-> "", market |-> ""],
     rd |-> NoRow, sf |-> NoRow, new_rd |-> FALSE, new_sf |-> FALSE, status |-> 0]

PgInit ==
    /\ pg_rd = {}
    /\ pg_sf = {}
    /\ pg_tx = [h \in Handlers |-> IdleTx]
    /\ pg_posts = [h \in Handlers |-> 0]
    /\ pg_ok = {}

unique_violation_NoIndex(rows, key) == FALSE

\* Index("idx_request_provider", "provider", "provider_id", "market",
\* unique=True): a row with the key is already there
unique_violation(rows, key) == \E row \in rows : row.key = key

\* rows with the key inserted by transactions still open
PendingInserts(key, h) ==
    {pg_tx[o].rd : o \in {o \in Handlers \ {h} : pg_tx[o].new_rd /\ pg_tx[o].key = key}}

\* get_or_create_request_data, the SELECT: scalar_one_or_none over the
\* committed rows with the key
SelectRequestData(h) ==
    /\ pg_tx[h].pc = "idle"
    /\ pg_posts[h] < MaxPosts
    /\ \E key \in PgKeys :
         LET found == {row \in pg_rd : row.key = key} IN
         /\ Cardinality(found) <= 1
         /\ pg_tx' = [pg_tx EXCEPT ![h] =
               IF found = {}
               THEN [IdleTx EXCEPT !.pc = "insert_rd", !.key = key]
               ELSE [IdleTx EXCEPT !.pc = "select_sf", !.key = key,
                                   !.rd = CHOOSE row \in found : TRUE]]
    /\ UNCHANGED <<pg_rd, pg_sf, pg_posts, pg_ok>>
    /\ UNCHANGED nonPgVars

\* get_or_create_request_data, db.add and db.flush: the INSERT waits for an
\* open transaction that inserted the key, and succeeds when the unique
\* index reports no committed row
InsertRequestData(h) ==
    /\ pg_tx[h].pc = "insert_rd"
    /\ ~unique_violation(PendingInserts(pg_tx[h].key, h), pg_tx[h].key)
    /\ ~unique_violation(pg_rd, pg_tx[h].key)
    /\ pg_tx' = [pg_tx EXCEPT ![h].pc = "select_sf",
                              ![h].rd = [id |-> <<h, pg_posts[h]>>, key |-> pg_tx[h].key],
                              ![h].new_rd = TRUE]
    /\ UNCHANGED <<pg_rd, pg_sf, pg_posts, pg_ok>>
    /\ UNCHANGED nonPgVars

\* the INSERT violates the unique index: IntegrityError leaves the handler,
\* the session is rolled back and the client gets 500
InsertConflict(h) ==
    /\ pg_tx[h].pc = "insert_rd"
    /\ ~unique_violation(PendingInserts(pg_tx[h].key, h), pg_tx[h].key)
    /\ unique_violation(pg_rd, pg_tx[h].key)
    /\ pg_tx' = [pg_tx EXCEPT ![h] = [IdleTx EXCEPT !.key = pg_tx[h].key, !.status = 500]]
    /\ pg_posts' = [pg_posts EXCEPT ![h] = @ + 1]
    /\ UNCHANGED <<pg_rd, pg_sf, pg_ok>>
    /\ UNCHANGED nonPgVars

\* get_or_create_static_file, the SELECT by request_data_id
SelectStaticFile(h) ==
    /\ pg_tx[h].pc = "select_sf"
    /\ LET found == {row \in pg_sf : row.request_data_id = pg_tx[h].rd.id} IN
       /\ Cardinality(found) <= 1
       /\ pg_tx' = [pg_tx EXCEPT ![h] =
             IF found = {}
             THEN [@ EXCEPT !.pc = "insert_sf"]
             ELSE [@ EXCEPT !.pc = "commit", !.sf = CHOOSE row \in found : TRUE]]
    /\ UNCHANGED <<pg_rd, pg_sf, pg_posts, pg_ok>>
    /\ UNCHANGED nonPgVars

\* get_or_create_static_file, db.add and db.flush: a path with a fresh
\* uuid4 fragment
InsertStaticFile(h) ==
    /\ pg_tx[h].pc = "insert_sf"
    /\ pg_tx' = [pg_tx EXCEPT ![h].pc = "commit",
                              ![h].sf = [request_data_id |-> pg_tx[h].rd.id,
                                         path |-> <<pg_tx[h].key.provider_id, h, pg_posts[h]>>],
                              ![h].new_sf = TRUE]
    /\ UNCHANGED <<pg_rd, pg_sf, pg_posts, pg_ok>>
    /\ UNCHANGED nonPgVars

\* db.commit() and the response with request_id and path
CommitGenerate(h) ==
    /\ pg_tx[h].pc = "commit"
    /\ pg_rd' = IF pg_tx[h].new_rd THEN pg_rd \cup {pg_tx[h].rd} ELSE pg_rd
    /\ pg_sf' = IF pg_tx[h].new_sf THEN pg_sf \cup {pg_tx[h].sf} ELSE pg_sf
    /\ pg_ok' = pg_ok \cup {[key |-> pg_tx[h].key, request_id |-> pg_tx[h].rd.id,
                              path |-> pg_tx[h].sf.path]}
    /\ pg_tx' = [pg_tx EXCEPT ![h] = [IdleTx EXCEPT !.key = pg_tx[h].key, !.status = 200,
                                                    !.rd = pg_tx[h].rd, !.sf = pg_tx[h].sf]]
    /\ pg_posts' = [pg_posts EXCEPT ![h] = @ + 1]
    /\ UNCHANGED nonPgVars

PgNext ==
    \/ \E h \in Handlers : SelectRequestData(h)
    \/ \E h \in Handlers : InsertRequestData(h)
    \/ \E h \in Handlers : InsertConflict(h)
    \/ \E h \in Handlers : SelectStaticFile(h)
    \/ \E h \in Handlers : InsertStaticFile(h)
    \/ \E h \in Handlers : CommitGenerate(h)

(***************************************************************************)
(* services/static_file.py: clean_ended_events, clean_orphan_files and     *)
(* clean_all                                                               *)
(***************************************************************************)
\* settings.retention_days_ended
retention_days_ended == 7

\* the requests the cleanup runs over
CleanIds == {1, 2}

\* the path get_or_create_static_file gave the file of a request
PathOf(i) == <<"odds", i>>

\* retention_days arguments of clean_all: the default, or no retention
RetentionArgs == {None, 0}

CleanTickStep == 4 * Day

NoClean ==
    [runs |-> 0, cutoff |-> None, deleted_requests |-> 0, deleted_files |-> 0,
     deleted_orphan_files |-> 0]

ClInit ==
    /\ cl_now = StartTime
    /\ cl_rd = [i \in CleanIds |-> NoRow]
    /\ cl_sf = [i \in CleanIds |-> NoRow]
    /\ cl_files = {}
    /\ cl_last = NoClean

\* POST /generate creates and commits the rows of a new request
ClCreate(i) ==
    /\ cl_rd[i] = NoRow
    /\ cl_rd' = [cl_rd EXCEPT ![i] = [is_ended |-> FALSE, updated_at |-> cl_now]]
    /\ cl_sf' = [cl_sf EXCEPT ![i] = [path |-> PathOf(i)]]
    /\ UNCHANGED <<cl_now, cl_files, cl_last>>
    /\ UNCHANGED nonClVars

\* a generation writes the file; a completed event marks the row ended and
\* the UPDATE stamps updated_at
ClGenerate(i) ==
    /\ cl_rd[i] # NoRow
    /\ \E completed \in BOOLEAN :
         cl_rd' = [cl_rd EXCEPT ![i] =
                     [is_ended |-> IsEndedAfter(cl_rd[i].is_ended, completed),
                      updated_at |-> IF completed /\ ~cl_rd[i].is_ended
                                     THEN cl_now ELSE cl_rd[i].updated_at]]
    /\ cl_files' = cl_files \cup {cl_sf[i].path}
    /\ UNCHANGED <<cl_now, cl_sf, cl_last>>
    /\ UNCHANGED nonClVars

ClTick ==
    /\ cl_now - StartTime < MaxCleanTicks * CleanTickStep
    /\ cl_now' = cl_now + CleanTickStep
    /\ UNCHANGED <<cl_rd, cl_sf, cl_files, cl_last>>
    /\ UNCHANGED nonClVars

\* cutoff_date = datetime.now() - timedelta(days=retention_days)
cutoff_date(t, retention_days) ==
    t - (IF retention_days = None THEN retention_days_ended ELSE retention_days) * Day

old_requests_AnyState(rd, cutoff) ==
    {i \in CleanIds : rd[i] # NoRow /\ rd[i].updated_at < cutoff}

\* the rows with is_ended == True and updated_at < cutoff_date
old_requests(rd, cutoff) ==
    {i \in CleanIds : rd[i] # NoRow /\ rd[i].is_ended /\ rd[i].updated_at < cutoff}

\* clean_ended_events: unlink the files of the old ended requests (failed
\* are the paths whose unlink raises OSError), delete the rows, the
\* static_files rows going with them by the cascade
clean_ended_events(rd, sf, files, cutoff, failed) ==
    LET old == old_requests(rd, cutoff)
        unlinked == {sf[i].path : i \in {i \in old : sf[i] # NoRow}}
                       \cap (files \ failed)
    IN [rd |-> [i \in CleanIds |-> IF i \in old THEN NoRow ELSE rd[i]],
        sf |-> [i \in CleanIds |-> IF i \in old THEN NoRow ELSE sf[i]],
        files |-> files \ unlinked,
        deleted_requests |-> Cardinality(old),
        deleted_files |-> Cardinality(unlinked)]

\* clean_orphan_files: unlink every *.json file whose relative path is the
\* path of no static_files row
clean_orphan_files(sf, files, failed) ==
    LET db_paths == {sf[i].path : i \in {i \in CleanIds : sf[i] # NoRow}}
        unlinked == {p \in files : p \notin db_paths} \ failed
    IN [files |-> files \ unlinked, deleted_orphan_files |-> Cardinality(unlinked)]

\* clean_all: ended events, then orphan files, then empty directories
\* (which hold no file)
CleanAll ==
    /\ cl_last.runs < MaxCleanRuns
    /\ \E retention_days \in RetentionArgs, failed1 \in SUBSET cl_files :
         LET cutoff == cutoff_date(cl_now, retention_days)
             ended == clean_ended_events(cl_rd, cl_sf, cl_files, cutoff, failed1)
         IN \E failed2 \in SUBSET ended.files :
              LET orphan == clean_orphan_files(ended.sf, ended.files, failed2) IN
              /\ cl_rd' = ended.rd
              /\ cl_sf' = ended.sf
              /\ cl_files' = orphan.files
              /\ cl_last' = [runs |-> cl_last.runs + 1, cutoff |-> cutoff,
                             deleted_requests |-> ended.deleted_requests,
                             deleted_files |-> ended.deleted_files,
                             deleted_orphan_files |-> orphan.deleted_orphan_files]
    /\ UNCHANGED cl_now
    /\ UNCHANGED nonClVars

ClNext ==
    \/ \E i \in CleanIds : ClCreate(i)
    \/ \E i \in CleanIds : ClGenerate(i)
    \/ ClTick
    \/ CleanAll

(***************************************************************************)
(* Specifications                                                          *)
(***************************************************************************)
\* the parts of the state a specification does not use stay as constructed
GenIdle ==
    /\ now = StartTime /\ ticks = 0 /\ commence = None
    /\ request_data = NoRow /\ static_files = NoRow /\ disk = NoFile
    /\ arq_pool = FALSE /\ jobs = 0
    /\ runs = [r \in Runs |-> IdleRun] /\ cron = IdleCron

RefIdle ==
    /\ rf_now = StartTime
    /\ rf_rd = NewRequestData
    /\ rf_pc = "call"
    /\ rf_out = FALSE

VbIdle ==
    /\ vb_cache = [bm \in VBNames |-> CacheMiss]
    /\ vb_args = NoArgs
    /\ vb_results = [i \in VBTasks |-> Pending]
    /\ vb_order = <<>>
    /\ vb_pc = "idle"
    /\ vb_out = <<>>

ArIdle ==
    /\ ar_now = 0
    /\ ar_upstream = <<>>
    /\ ar_cache = ArbCacheMiss
    /\ ar_args = NoArbArgs
    /\ ar_pc = "idle"
    /\ ar_src_limit = 0
    /\ ar_out = <<>>

RgIdle ==
    /\ rg_region = "br"
    /\ rg_requested = NoList
    /\ rg_pc = "call"
    /\ rg_ret = Returned(<<>>)

RtIdle ==
    /\ rt_req = [endpoint |-> "odds", region |-> "br", bookmakers |-> NoList, ids |-> 1]
    /\ rt_pc = "recv"
    /\ rt_status = 0
    /\ rt_passed = NotCalled
    /\ rt_rows = FALSE
    /\ rt_resp = {}

WlIdle ==
    /\ wl_rows = <<>>
    /\ wl_events = <<>>
    /\ wl_exact = {}
    /\ wl_patterns = <<>>
    /\ wl_pc = "load"
    /\ wl_out = <<>>

TrIdle ==
    /\ tr_payload = [market |-> "1x2", shape |-> "dict", bookmakers |-> <<>>]
    /\ tr_pc = "call"
    /\ tr_out = TrNone

RqIdle ==
    /\ rq_now = 0
    /\ rq_cache = NoEntry
    /\ rq_calls = 0
    /\ rq_gets = 0
    /\ rq_api_calls = 0
    /\ rq_last = NoLast
    /\ rq_http = NoResponse

WaIdle ==
    /\ wa_table = <<>>
    /\ wa_last = NoCall

GsIdle ==
    /\ gs_now = StartTime
    /\ gs_sf = NewStaticFile
    /\ gs_rd = NewRequestData
    /\ gs_disk = NoFile
    /\ gs_last = NoGsCall

SvIdle ==
    /\ sv_disk = NoFile
    /\ sv_sf = NewStaticFile
    /\ sv_writer = IdleWriter
    /\ sv_read = NoRead

CjIdle ==
    /\ cj_now = StartTime /\ cj_commence = None
    /\ cj_request = NoBookmakers /\ cj_queued = FALSE
    /\ cj_rd = NewRequestData /\ cj_sf = NewStaticFile /\ cj_disk = NoFile
    /\ cj_runs = 0 /\ cj_fetched_at = None /\ cj_last = NoCjRun

PgIdle ==
    /\ pg_rd = {} /\ pg_sf = {}
    /\ pg_tx = [h \in Handlers |-> IdleTx]
    /\ pg_posts = [h \in Handlers |-> 0]
    /\ pg_ok = {}

ClIdle ==
    /\ cl_now = StartTime
    /\ cl_rd = [i \in CleanIds |-> NoRow]
    /\ cl_sf = [i \in CleanIds |-> NoRow]
    /\ cl_files = {}
    /\ cl_last = NoClean

\* static file generation: handlers, worker tasks and the refresh cron
GenStart == GenInit /\ RefIdle /\ VbIdle /\ ArIdle /\ RgIdle /\ RtIdle /\ WlIdle /\ TrIdle /\ RqIdle /\ WaIdle /\ GsIdle /\ SvIdle /\ CjIdle /\ PgIdle /\ ClIdle

SpecGen == GenStart /\ [][GenNext]_vars

\* the refresh policy
RefStart == RefInit /\ GenIdle /\ VbIdle /\ ArIdle /\ RgIdle /\ RtIdle /\ WlIdle /\ TrIdle /\ RqIdle /\ WaIdle /\ GsIdle /\ SvIdle /\ CjIdle /\ PgIdle /\ ClIdle

SpecRefresh == RefStart /\ [][RefNext]_vars

\* one value-bets call
VbStart == VBInit /\ GenIdle /\ RefIdle /\ ArIdle /\ RgIdle /\ RtIdle /\ WlIdle /\ TrIdle /\ RqIdle /\ WaIdle /\ GsIdle /\ SvIdle /\ CjIdle /\ PgIdle /\ ClIdle

SpecValueBets == VbStart /\ [][VBNext]_vars

\* arbitrage calls over time
ArStart == ArbInit /\ GenIdle /\ RefIdle /\ VbIdle /\ RgIdle /\ RtIdle /\ WlIdle /\ TrIdle /\ RqIdle /\ WaIdle /\ GsIdle /\ SvIdle /\ CjIdle /\ PgIdle /\ ClIdle

SpecArbitrage == ArStart /\ [][ArbNext]_vars

\* one region filter call
RgStart == RgInit /\ GenIdle /\ RefIdle /\ VbIdle /\ ArIdle /\ RtIdle /\ WlIdle /\ TrIdle /\ RqIdle /\ WaIdle /\ GsIdle /\ SvIdle /\ CjIdle /\ PgIdle /\ ClIdle

SpecRegion == RgStart /\ [][RgNext]_vars

\* one request to a region-aware route
RtStart == RtInit /\ GenIdle /\ RefIdle /\ VbIdle /\ ArIdle /\ RgIdle /\ WlIdle /\ TrIdle /\ RqIdle /\ WaIdle /\ GsIdle /\ SvIdle /\ CjIdle /\ PgIdle /\ ClIdle

SpecRoutes == RtStart /\ [][RtNext]_vars

\* one whitelist-filtered event list
WlStart == WlInit /\ GenIdle /\ RefIdle /\ VbIdle /\ ArIdle /\ RgIdle /\ RtIdle /\ TrIdle /\ RqIdle /\ WaIdle /\ GsIdle /\ SvIdle /\ CjIdle /\ PgIdle /\ ClIdle

SpecWhitelist == WlStart /\ [][WlNext]_vars

\* one payload through its market transformer
TrStart == TrInit /\ GenIdle /\ RefIdle /\ VbIdle /\ ArIdle /\ RgIdle /\ RtIdle /\ WlIdle /\ RqIdle /\ WaIdle /\ GsIdle /\ SvIdle /\ CjIdle /\ PgIdle /\ ClIdle

SpecTransform == TrStart /\ [][TrNext]_vars

\* requests for one event through the cached client
RqStart == RqInit /\ GenIdle /\ RefIdle /\ VbIdle /\ ArIdle /\ RgIdle /\ RtIdle /\ WlIdle /\ TrIdle /\ WaIdle /\ GsIdle /\ SvIdle /\ CjIdle /\ PgIdle /\ ClIdle

SpecRequest == RqStart /\ [][RqNext]_vars

\* administration of the league whitelist
WaStart == WaInit /\ GenIdle /\ RefIdle /\ VbIdle /\ ArIdle /\ RgIdle /\ RtIdle /\ WlIdle /\ TrIdle /\ RqIdle /\ GsIdle /\ SvIdle /\ CjIdle /\ PgIdle /\ ClIdle

SpecWhitelistAdmin == WaStart /\ [][WaNext]_vars

\* generate_static_file called with every combination of arguments
GsStart == GsInit /\ GenIdle /\ RefIdle /\ VbIdle /\ ArIdle /\ RgIdle /\ RtIdle /\ WlIdle /\ TrIdle /\ RqIdle /\ WaIdle /\ SvIdle /\ CjIdle /\ PgIdle /\ ClIdle

SpecGenerate == GsStart /\ [][GsNext]_vars

\* a file rewritten by generate_static_file while clients read it
SvStart == SvInit /\ GenIdle /\ RefIdle /\ VbIdle /\ ArIdle /\ RgIdle /\ RtIdle /\ WlIdle /\ TrIdle /\ RqIdle /\ WaIdle /\ GsIdle /\ CjIdle /\ PgIdle /\ ClIdle

SpecServe == SvStart /\ [][SvNext]_vars

\* the scheduled runs of the refresh cron over one request
CjStart == CjInit /\ GenIdle /\ RefIdle /\ VbIdle /\ ArIdle /\ RgIdle /\ RtIdle /\ WlIdle /\ TrIdle /\ RqIdle /\ WaIdle /\ GsIdle /\ SvIdle /\ PgIdle /\ ClIdle

SpecCron == CjStart /\ [][CjNext]_vars

\* concurrent generate requests
PgStart == PgInit /\ GenIdle /\ RefIdle /\ VbIdle /\ ArIdle /\ RgIdle /\ RtIdle /\ WlIdle /\ TrIdle /\ RqIdle /\ WaIdle /\ GsIdle /\ SvIdle /\ CjIdle /\ ClIdle

SpecPostGenerate == PgStart /\ [][PgNext]_vars

\* cleanup of ended events and orphan files
ClStart == ClInit /\ GenIdle /\ RefIdle /\ VbIdle /\ ArIdle /\ RgIdle /\ RtIdle /\ WlIdle /\ TrIdle /\ RqIdle /\ WaIdle /\ GsIdle /\ SvIdle /\ CjIdle /\ PgIdle

SpecCleanup == ClStart /\ [][ClNext]_vars

(***************************************************************************)
(* Properties of static file generation                                    *)
(***************************************************************************)
\* no handler, task or cron run is in progress
Quiescent == cron.pc = "idle" /\ \A r \in Runs : runs[r].pc = "idle"

\* the provider's answer carries the odds the file on disk was written from
SameOdds(data, file) ==
    /\ data # NoData
    /\ file # NoFile
    /\ data.price = file.data.price
    /\ data.completed = file.isEnded

\* C1: a generation (force = False) of a StaticFile that has a stored hash,
\* for which the provider answers the same odds as the ones the stored file
\* was written from, writes nothing to disk, leaves StaticFile.hash and
\* last_modified unchanged and returns False
C1_IdempotentRegeneration ==
    [][/\ \A r \in Runs :
            (/\ runs[r].pc = "loaded" /\ runs'[r].pc = "generated"
             /\ runs[r].sf.hash # NoHash
             /\ disk # NoFile /\ disk.hash = runs[r].sf.hash
             /\ SameOdds(runs'[r].data, disk))
            => (runs'[r].ret = FALSE /\ disk' = disk /\ runs'[r].sf = runs[r].sf)
       /\ (/\ cron.pc = "fetch" /\ cron'.pc = "commit" /\ cron'.data # NoData
           /\ cron.sf.hash # NoHash
           /\ disk # NoFile /\ disk.hash = cron.sf.hash
           /\ SameOdds(cron'.data, disk))
          => (cron'.ret = FALSE /\ disk' = disk /\ cron'.sf = cron.sf)]_vars

\* C2: whenever no generation is in progress, a StaticFile with a hash has a
\* file on disk whose recorded hash is StaticFile.hash
C2_HashMatchesDisk ==
    (Quiescent /\ static_files # NoRow /\ static_files.hash # NoHash)
        => (disk # NoFile /\ disk.hash = static_files.hash)

\* C3: once RequestData.is_ended is true it stays true while the row exists
C3_IsEndedMonotonic ==
    [][(request_data # NoRow /\ request_data.is_ended /\ request_data' # NoRow)
        => request_data'.is_ended]_vars

\* C3 witness: an ended row whose file was regenerated and committed from a
\* payload that is not completed
C3_Witness ==
    /\ Quiescent
    /\ request_data # NoRow /\ request_data.is_ended
    /\ disk # NoFile /\ ~disk.isEnded
    /\ static_files.hash = disk.hash

(***************************************************************************)
(* Properties of the refresh policy                                        *)
(***************************************************************************)
\* the event's date is a calendar day before the day of the call
OnPastDay(rd, t) ==
    /\ rd.event_date # None
    /\ rd.event_date < t
    /\ DateOf(rd.event_date) # DateOf(t)

\* C4 as stated: a row that is not ended and was never refreshed needs a
\* refresh whatever its event_date is, and an ended row never does
C4_NeverRefreshedAnyDate ==
    rf_pc = "done" =>
        /\ (~rf_rd.is_ended /\ rf_rd.last_refreshed = None) => rf_out = TRUE
        /\ rf_rd.is_ended => rf_out = FALSE

\* C4 amended: a row that is not ended and was never refreshed needs a
\* refresh exactly when its event_date is unknown or not on a past calendar
\* day, and an ended row never does
C4_NeverRefreshed ==
    rf_pc = "done" =>
        /\ (~rf_rd.is_ended /\ rf_rd.last_refreshed = None)
              => (rf_out = ~OnPastDay(rf_rd, rf_now))
        /\ rf_rd.is_ended => rf_out = FALSE

\* C4 witness: needs_refresh() answered False for a never refreshed, not
\* ended row whose event was yesterday
C4_Witness ==
    /\ rf_pc = "done"
    /\ rf_out = FALSE
    /\ ~rf_rd.is_ended
    /\ rf_rd.last_refreshed = None
    /\ rf_rd.event_date = rf_now - Day

\* the tier interval as C5 states it: by calendar day and distance in days
ClaimedInterval(rd, t) ==
    IF DateOf(rd.event_date) = DateOf(t) THEN LIVE_INTERVAL
    ELSE IF rd.event_date - t <= HOURLY_MAX_DAYS * Day THEN HOURLY_INTERVAL
    ELSE DAILY_INTERVAL

C6_CronOnlyDue ==
    [][(cron.pc = "loop" /\ cron'.pc = "fetch")
        => (~cron.rd.is_ended /\ ~cron.rd0.is_ended /\ needs_refresh(cron.rd, now))]_vars

\* C6 witness: the cron is about to regenerate a row it refreshed before
C6_Witness ==
    /\ cron.pc = "fetch"
    /\ cron.rd.last_refreshed # None
    /\ now - cron.rd.last_refreshed >= LIVE_INTERVAL

(***************************************************************************)
(* Properties of the value-bets aggregator                                 *)
(***************************************************************************)
\* the bets the fetched lists transform to
FetchedBets == {transform_value_bet(MergeResults(vb_results)[k]) :
                    k \in 1..Len(MergeResults(vb_results))} \ {NoBet}

\* a bet meets min_ev and the sport and league filters of the call
Qualifies(bet) ==
    /\ bet.expected_value >= vb_args.min_ev
    /\ vb_args.sport = "" \/ Lower(bet.sport_slug) = Lower(vb_args.sport)
    /\ vb_args.league = "" \/ Lower(bet.league_slug) = Lower(vb_args.league)

\* the most entries a call with this limit may return
AtMost(limit) == IF limit < 0 THEN 0 ELSE limit

\* C7: the response of get_value_bets holds only fetched bets that meet
\* min_ev and the sport and league filters, in descending order of expected
\* value, at most limit of them, and a qualifying bet is left out only when
\* the response is full and the bet ranks no higher than its entries
C7_FilterRankTruncate ==
    vb_pc = "done" =>
        /\ \A k \in 1..Len(vb_out) : vb_out[k] \in FetchedBets /\ Qualifies(vb_out[k])
        /\ \A k \in 1..(Len(vb_out) - 1) :
              vb_out[k].expected_value >= vb_out[k + 1].expected_value
        /\ Len(vb_out) <= AtMost(vb_args.limit)
        /\ \A bet \in FetchedBets :
              (Qualifies(bet) /\ \A k \in 1..Len(vb_out) : vb_out[k] # bet)
                  => /\ Len(vb_out) = AtMost(vb_args.limit)
                     /\ \A k \in 1..Len(vb_out) :
                           vb_out[k].expected_value >= bet.expected_value

\* the results of the tasks whose fetch succeeded, in the order of the tasks
RECURSIVE SucceededFrom(_)
SucceededFrom(i) ==
    IF i > Len(VBBookmakers) THEN <<>>
    ELSE (IF vb_results[i].state = "ok" THEN <<vb_results[i]>> ELSE <<>>)
         \o SucceededFrom(i + 1)

\* C8: whichever fetches failed and in whatever order the fetches completed,
\* the response get_value_bets returns is what the call computes from the
\* lists of the bookmakers whose fetch succeeded alone, taken in the order of
\* the bookmakers
C8_FailureIsolation ==
    vb_pc = "done" => vb_out = value_bets_response(SucceededFrom(1), vb_args)

\* C8 witness: the second bookmaker's fetch completed first, the first
\* bookmaker's fetch failed, and the response still carries bets
C8_Witness ==
    /\ vb_pc = "done"
    /\ vb_order = <<2, 1>>
    /\ vb_results[1] = Failed
    /\ vb_out # <<>>

(***************************************************************************)
(* Properties of the arbitrage aggregator                                  *)
(***************************************************************************)
\* C9: the data every answered get_arbitrage_bets call computes its response
\* from was requested upstream with limit = min(3 * L, 100) for the L of
\* that call, cache hits included
C9_UpstreamLimitPerCall ==
    ar_pc = "done" => ar_src_limit = upstream_limit(ar_args.limit)

(***************************************************************************)
(* Properties of the region filter                                         *)
(***************************************************************************)
\* C10: get_bookmakers_for_region returns the region's full list when no or
\* an empty list is requested, the requested list as it is when each of its
\* bookmakers is in the region's list, and otherwise raises a 400 that names
\* the requested bookmakers outside the region's list and the region's list;
\* bet365 is rejected for br and betano is accepted
C10_RegionValidation ==
    rg_pc = "done" =>
        LET allowed == REGION_BOOKMAKERS[rg_region]
            requested == rg_requested.list
        IN /\ IF rg_requested.is_none \/ Len(requested) = 0
              THEN rg_ret.status = 200 /\ rg_ret.bookmakers = allowed
              ELSE IF Elements(requested) \subseteq Elements(allowed)
              THEN rg_ret.status = 200 /\ rg_ret.bookmakers = requested
              ELSE /\ rg_ret.status = 400
                   /\ Elements(rg_ret.invalid) = Elements(requested) \ Elements(allowed)
                   /\ rg_ret.allowed = allowed
           /\ (rg_region = "br" /\ ~rg_requested.is_none /\ requested = <<"bet365">>)
                 => rg_ret.status = 400
           /\ (rg_region = "br" /\ ~rg_requested.is_none /\ requested = <<"betano">>)
                 => (rg_ret.status = 200 /\ rg_ret.bookmakers = <<"betano">>)

\* C10 witness: betano and bet365 requested for br, the call raised the 400
\* naming bet365
C10_Witness ==
    /\ rg_pc = "done"
    /\ rg_region = "br"
    /\ rg_requested.list = <<"betano", "bet365">>
    /\ rg_ret.status = 400
    /\ rg_ret.invalid = <<"bet365">>

(***************************************************************************)
(* Properties of the region-aware routes                                   *)
(***************************************************************************)
\* the six GET endpoints that take a region
RegionGetEndpoints == Endpoints \ {"generate"}

\* the request names a bookmaker outside the allowed list of its region
NamesDisallowed(req) ==
    /\ ~req.bookmakers.is_none
    /\ ~(Elements(req.bookmakers.list) \subseteq Elements(REGION_BOOKMAKERS[req.region]))

\* C11: on the six GET endpoints every bookmaker handed to the provider is
\* in the allowed list of the request's region, and a request that names a
\* bookmaker outside that list ends with a 400 without a provider call
C11_OnlyAllowedPassed ==
    rt_req.endpoint \in RegionGetEndpoints =>
        /\ rt_passed.called =>
              Elements(rt_passed.bookmakers) \subseteq Elements(REGION_BOOKMAKERS[rt_req.region])
        /\ (rt_pc # "recv" /\ NamesDisallowed(rt_req)) =>
              (rt_pc = "rejected" /\ rt_status = 400 /\ ~rt_passed.called)

\* C11 witness: /odds/updated for br asked for bet365 and was rejected
C11_Witness ==
    /\ rt_pc = "rejected"
    /\ rt_req.endpoint = "odds_updated"
    /\ rt_req.region = "br"
    /\ rt_req.bookmakers.list = <<"bet365">>
    /\ rt_status = 400

\* C12: the response of the six GET endpoints carries no data of a
\* bookmaker outside the allowed list of the request's region
C12_ResponseGatedByRegion ==
    (rt_pc = "done" /\ rt_req.endpoint \in RegionGetEndpoints) =>
        \A name \in rt_resp : BookmakerKey(name) \in Elements(REGION_BOOKMAKERS[rt_req.region])

\* C13: a POST /generate whose bookmakers include one outside the allowed
\* list of its region is rejected with a 400, creates no row and calls the
\* provider with no such bookmaker
C13_GenerateValidatesRegion ==
    (rt_req.endpoint = "generate" /\ rt_pc # "recv") =>
        /\ rt_passed.called =>
              Elements(rt_passed.bookmakers) \subseteq Elements(REGION_BOOKMAKERS[rt_req.region])
        /\ NamesDisallowed(rt_req) => (rt_status = 400 /\ ~rt_rows /\ ~rt_passed.called)

(***************************************************************************)
(* Properties of the league whitelist                                      *)
(***************************************************************************)
\* glob matching with * (any run of characters) and ? (one character), by
\* the set of pattern positions reachable after each character of the name
StarClosure(S, pat) ==
    {k \in 0..Len(pat) : \E j \in S : j <= k /\ \A i \in (j + 1)..k : pat[i] = "*"}

GlobStep(S, c, pat) ==
    StarClosure({j \in S : j >= 1 /\ pat[j] = "*"}
                \cup {j + 1 : j \in {k \in S : k < Len(pat) /\ pat[k + 1] \in {"?", c}}},
                pat)

RECURSIVE GlobRun(_, _, _)
GlobRun(S, name, pat) ==
    IF name = <<>> THEN S ELSE GlobRun(GlobStep(S, Head(name), pat), Tail(name), pat)

GlobMatches(name, pat) == Len(pat) \in GlobRun(StarClosure({0}, pat), name, pat)

Whitelisted(e) ==
    \/ e.league \in wl_exact
    \/ \E i \in 1..Len(wl_patterns) : GlobMatches(e.league, wl_patterns[i])

\* C14: with an empty whitelist the events come back unchanged; otherwise
\* the result is, in input order, exactly the events whose league slug is
\* an exact match or glob-matches a pattern; uefa-euro* keeps
\* uefa-euro-2028 and drops uefa-nations-league
C14_WhitelistFilter ==
    wl_pc = "done" =>
        /\ wl_out = IF wl_exact = {} /\ wl_patterns = <<>> THEN wl_events
                    ELSE SelectSeq(wl_events, Whitelisted)
        /\ (wl_exact = {} /\ wl_patterns = <<UefaEuroStar>>) =>
              wl_out = SelectSeq(wl_events, LAMBDA e : e.league = UefaEuro2028)

\* C14 witness: an exact row and uefa-euro* kept two of three events in order
C14_Witness ==
    /\ wl_pc = "done"
    /\ wl_exact = {<<"b","a">>}
    /\ wl_patterns = <<UefaEuroStar>>
    /\ Len(wl_events) = 2
    /\ wl_events[1].league = UefaNationsLeague
    /\ wl_events[2].league = UefaEuro2028
    /\ wl_out = <<wl_events[2]>>

(***************************************************************************)
(* Properties of the market transformers                                   *)
(***************************************************************************)
\* the odds entries of a bookmaker that its market reads
EntriesRead(market, bm) ==
    IF market \in ListedMarkets \/ bm.odds = <<>> THEN bm.odds ELSE <<bm.odds[1]>>

\* all required odds fields of the entry parse to floats greater than 0
PositiveEntry(market, e) ==
    /\ AllParse(e.prices)
    /\ \A k \in 1..Len(e.prices) : ParseFloat(e.prices[k]).val > 0
    /\ market = "correct_score" => e.score # ""

\* the bookmaker has an entry with all-positive fields
QualifyingBookmaker(market, bm) ==
    \E i \in 1..Len(EntriesRead(market, bm)) : PositiveEntry(market, EntriesRead(market, bm)[i])

\* C15: every emitted price is greater than 0, the result is None when no
\* bookmaker qualifies and is a document when a bookmaker has all-positive
\* fields
C15_OnlyPositiveEmitted ==
    tr_pc = "done" =>
        /\ \A i \in 1..Len(tr_out.bookmakers) :
              \A j \in 1..Len(tr_out.bookmakers[i].lines) :
                 \A k \in 1..Len(tr_out.bookmakers[i].lines[j].prices) :
                    tr_out.bookmakers[i].lines[j].prices[k] > 0
        /\ tr_out.is_none <=>
              ~\E i \in 1..Len(tr_payload.bookmakers) :
                  QualifyingBookmaker(tr_payload.market, tr_payload.bookmakers[i])

OutLines(entries) == [i \in 1..Len(entries) |-> OutLine(entries[i])]

\* the input lines of a bookmaker whose two prices are positive
PositiveLines(bm) ==
    OutLines(SelectSeq(bm.odds, LAMBDA e : PositiveEntry(tr_payload.market, e)))

\* lines is the ascending arrangement of expected, equal line values in
\* their input order
AscendingOf(lines, expected) ==
    /\ Len(lines) = Len(expected)
    /\ \A i, j \in 1..Len(lines) : i < j => lines[i].line <= lines[j].line
    /\ \A v \in LineValues :
          SelectSeq(lines, LAMBDA l : l.line = v) = SelectSeq(expected, LAMBDA l : l.line = v)

WellFormedBookmaker(market, bm) ==
    /\ QualifyingBookmaker(market, bm)
    /\ \A i \in 1..Len(EntriesRead(market, bm)) : AllParse(EntriesRead(market, bm)[i].prices)
    /\ ParseUpdatedAt(bm.updatedAt).ok

\* C17: every well-formed bookmaker of a payload is in the result, whatever
\* is wrong with the other bookmakers
C17_PartialSuccess ==
    tr_pc = "done" =>
        \A i \in 1..Len(tr_payload.bookmakers) :
            WellFormedBookmaker(tr_payload.market, tr_payload.bookmakers[i]) =>
                /\ ~tr_out.is_none
                /\ \E j \in 1..Len(tr_out.bookmakers) :
                      tr_out.bookmakers[j].name = tr_payload.bookmakers[i].name

(***************************************************************************)
(* Properties of the cached upstream client                                *)
(***************************************************************************)
\* C18: a timeout gives 504, an upstream 429 gives 429 with a retry_after,
\* another upstream error status s gives s when 400 <= s < 600 and 502
\* otherwise, a network error gives 502, an unknown event gives 404
C18_ErrorStatusMapping ==
    LET answer == rq_last.answer IN
    /\ answer.kind = "timeout" => rq_http.status = 504
    /\ (answer.kind = "status" /\ answer.status = 429) =>
          (rq_http.status = 429 /\ rq_http.retry_after # None)
    /\ (answer.kind = "status" /\ answer.status # 429) =>
          rq_http.status = IF 400 <= answer.status /\ answer.status < 600
                           THEN answer.status ELSE 502
    /\ answer.kind = "network" => rq_http.status = 502
    /\ (answer.kind = "ok" /\ answer.body = PyNone) => rq_http.status = 404

\* the typed error of an upstream failure
TypedError(answer) ==
    CASE answer.kind = "timeout" -> "ProviderTimeoutError"
      [] answer.kind = "network" -> "ProviderError"
      [] answer.kind = "status" /\ answer.status = 429 -> "RateLimitError"
      [] answer.kind = "status" /\ answer.status # 429 -> "ProviderError"

\* C19: an invocation issues at most one GET; when the GET fails the
\* invocation raises the typed error of the failure and writes nothing, so
\* the cache still holds nothing for the next call
C19_NoRetryTypedError ==
    /\ rq_last.gets <= 1
    /\ rq_gets <= rq_calls
    /\ rq_last.answer.kind \in {"timeout", "network", "status"} =>
          /\ rq_last.result.outcome = "raise"
          /\ rq_last.result.error = TypedError(rq_last.answer)
          /\ ~rq_last.wrote
          /\ cache_get(rq_cache, rq_now) = PyNone

\* C20: an invocation that finds a value under the key returns it without
\* a GET and without counting an API call; a GET is issued only when the
\* key holds nothing, and its response is then stored with the TTL
C20_CachedValueServed ==
    /\ rq_last.held => (rq_last.gets = 0 /\ rq_last.tracked = 0)
    /\ rq_last.gets = 1 => ~rq_last.held
    /\ rq_api_calls = rq_gets
    /\ rq_last.answer.kind = "ok" =>
          (rq_last.wrote /\ rq_cache.present
           /\ rq_cache.expires = rq_last.at + cache_ttl_events
           /\ JsonLoads(rq_cache.value) = rq_last.answer.body)

(***************************************************************************)
(* Properties of the whitelist administration                              *)
(***************************************************************************)
Pairs(table) == {<<table[i].sport, table[i].league_slug>> : i \in 1..Len(table)}

\* the table holds at most one row per (sport, league_slug)
UniquePairs(table) == Cardinality(Pairs(table)) = Len(table)

\* the rows of table are rows of later, in the same order, unchanged
KeptIn(table, later) ==
    /\ Len(later) >= Len(table)
    /\ SubSeq(later, 1, Len(table)) = table

AllEvents ==
    <<[id |-> 1, league |-> <<"a">>], [id |-> 2, league |-> <<"a", "b">>],
      [id |-> 3, league |-> <<"b", "a">>], [id |-> 4, league |-> UefaEuro2028]>>

\* the events a whitelist read for the sport retains ("" reads every sport)
Retained(table, sport) ==
    LET allowed == get_allowed_leagues_with_patterns(table, sport)
        kept == filter_events_by_whitelist(AllEvents, allowed.exact, allowed.patterns)
    IN {kept[i] : i \in 1..Len(kept)}

\* C29: after toggle_league(is_active=False) the filter retains a subset of
\* the events it retained before
C29_DeactivationShrinks ==
    [][(wa_last'.op = "toggle" /\ ~wa_last'.is_active) =>
           \A sport \in WaSports \cup {""} :
              Retained(wa_table', sport) \subseteq Retained(wa_table, sport)]_vars

\* C22: GET /files/{request_id} answers 404 without a StaticFile row, "pending"
\* exactly while the row has no hash and "completed" otherwise, and a row
\* reported "completed" is never reported "pending" afterwards
C22_FileInfoStatus ==
    /\ [](LET info == get_file_info(static_files)
          IN /\ (info.code = 404) <=> (static_files = NoRow)
             /\ (info.status = "pending") <=>
                    (static_files # NoRow /\ static_files.hash = NoHash)
             /\ (info.status = "completed") <=>
                    (static_files # NoRow /\ static_files.hash # NoHash))
    /\ [][(get_file_info(static_files).status = "completed"
             /\ static_files' # NoRow) =>
           get_file_info(static_files').status = "completed"]_vars

\* C22 witness: a file reported "completed" was regenerated later and is
\* still reported "completed"
C22_Witness ==
    /\ get_file_info(static_files).status = "completed"
    /\ static_files.last_modified > StartTime

\* C23: generate_static_file writes the file and returns True exactly when
\* the provider returned a document and (force, or no stored hash, or the
\* stored hash differs from the document's hash); otherwise it returns False
\* and leaves the file, the StaticFile row and the RequestData row unchanged
C23_WritesExactlyWhenChanged ==
    [][gs_last' # gs_last =>
         LET data == gs_last'.data
             document == data # NoData
             new_hash == IF document
                         THEN compute_hash(transform_odds(data, gs_now))
                         ELSE NoHash
             writes == document /\ (gs_last'.force \/ gs_sf.hash = NoHash
                                      \/ gs_sf.hash # new_hash)
         IN /\ gs_last'.ret = writes
            /\ writes =>
                 /\ gs_disk' # NoFile
                 /\ gs_disk'.hash = new_hash
                 /\ gs_disk'.lastModified = gs_now
                 /\ gs_sf'.hash = new_hash
            /\ ~writes =>
                 /\ gs_disk' = gs_disk
                 /\ gs_sf'.hash = gs_sf.hash
                 /\ gs_sf'.last_modified = gs_sf.last_modified
                 /\ gs_rd'.is_ended = gs_rd.is_ended
                 /\ gs_rd'.event_date = gs_rd.event_date]_vars

\* C23 witness: a call without force found the stored hash equal to the hash
\* of the provider's document and returned False over an existing file
C23_Witness ==
    /\ gs_last.called
    /\ gs_last.data # NoData
    /\ ~gs_last.force
    /\ ~gs_last.ret
    /\ gs_disk # NoFile
    /\ gs_sf.hash = compute_hash(transform_odds(gs_last.data, gs_now))

\* the complete documents generate_static_file can write
CompleteTexts ==
    {JsonDump(generate_static_file(NewStaticFile, NewRequestData, data, StartTime, FALSE).file) :
        data \in GsAnswers \ {NoData}}

\* C24: a reader of a static file never observes an empty, truncated or
\* partially written document, only a complete previous or new one
C24_ReadersSeeCompleteDocuments ==
    sv_read.status \in {200, 500} => sv_read.body \in CompleteTexts

\* C25: while the row is not ended, its event is on the same day and the
\* provider has a document, every scheduled run of refresh_active_odds
\* regenerates the file
C25_LiveRefreshedEveryRun ==
    [][(/\ cj_runs' = cj_runs + 1
        /\ ~cj_rd.is_ended
        /\ cj_rd.event_date # None
        /\ DateOf(cj_rd.event_date) = DateOf(cj_last'.at)
        /\ cj_last'.answer # NoData) =>
           (cj_last'.ret /\ cj_disk'.lastModified >= cj_last'.at)]_vars

\* C26: two provider calls of the cron for a row in the hourly or daily
\* tier are at least the tier's interval apart
C26_FetchAtMostOncePerInterval ==
    [][(/\ cj_runs' = cj_runs + 1
        /\ cj_last'.fetched
        /\ cj_fetched_at # None
        /\ cj_rd.event_date # None
        /\ cj_last'.tier \in {"hourly", "daily"}) =>
           cj_last'.at - cj_fetched_at >= get_interval_seconds(cj_last'.tier)]_vars

\* C28: every generation that built the file queried the bookmakers of the
\* generate request that created it
C28_SameBookmakersEveryGeneration ==
    cj_last.ret => cj_last.bookmakers = request_bookmakers(cj_request)

\* C27: whatever the interleaving of POST /generate requests, each key has
\* at most one RequestData row and one StaticFile row, and the requests that
\* succeeded for a key returned the same request_id and path
C27_OneRowPerKey ==
    \A key \in PgKeys :
        LET rows == {row \in pg_rd : row.key = key}
            files == {f \in pg_sf : \E row \in rows : f.request_data_id = row.id}
        IN /\ Cardinality(rows) <= 1
           /\ Cardinality(files) <= 1
           /\ \A a, b \in pg_ok : (a.key = key /\ b.key = key) => a = b
           /\ \A a \in pg_ok : a.key = key =>
                 /\ \E row \in rows : row.id = a.request_id
                 /\ \E f \in files : f.path = a.path

\* C27 witness: both handlers were answered for the same key, one request
\* created the rows, a concurrent one lost the insert and a later one
\* succeeded with the rows it found
C27_Witness ==
    /\ pg_tx[1].pc = "idle" /\ pg_tx[2].pc = "idle"
    /\ pg_tx[1].key = pg_tx[2].key
    /\ pg_tx[1].status = 200 /\ pg_tx[2].status = 200
    /\ pg_posts[2] = 2
    /\ pg_tx[1].rd = pg_tx[2].rd /\ pg_tx[1].sf = pg_tx[2].sf
    /\ Cardinality(pg_rd) = 1

\* paths recorded in the static_files rows
RecordedPaths(sf) == {sf[i].path : i \in {i \in CleanIds : sf[i] # NoRow}}

\* C30: clean_all deletes a RequestData only if it is ended and older than
\* the cutoff, deletes only files of the deleted requests or files recorded
\* in no StaticFile row, and leaves every non-ended RequestData, its
\* StaticFile row and its file unchanged
C30_CleanupKeepsLiveData ==
    [][cl_last'.runs # cl_last.runs =>
         /\ \A i \in CleanIds :
              (cl_rd[i] # NoRow /\ cl_rd'[i] = NoRow) =>
                  (cl_rd[i].is_ended /\ cl_rd[i].updated_at < cl_last'.cutoff)
         /\ \A p \in cl_files \ cl_files' :
              \/ \E i \in CleanIds :
                    /\ cl_sf[i] # NoRow /\ cl_sf[i].path = p
                    /\ cl_rd[i].is_ended /\ cl_rd[i].updated_at < cl_last'.cutoff
              \/ p \notin RecordedPaths(cl_sf)
         /\ \A i \in CleanIds :
              (cl_rd[i] # NoRow /\ ~cl_rd[i].is_ended) =>
                  /\ cl_rd'[i] = cl_rd[i]
                  /\ cl_sf'[i] = cl_sf[i]
                  /\ (cl_sf[i].path \in cl_files) <=> (cl_sf[i].path \in cl_files')]_vars

\* C30 witness: a clean_all deleted an old ended request and its file and
\* kept a request as old that is not ended, with its row and its file
C30_Witness ==
    /\ cl_last.deleted_requests = 1
    /\ cl_last.deleted_files = 1
    /\ \E i \in CleanIds :
          /\ cl_rd[i] # NoRow /\ ~cl_rd[i].is_ended
          /\ cl_rd[i].updated_at < cl_last.cutoff
          /\ cl_sf[i] # NoRow /\ cl_sf[i].path \in cl_files

====
